---- MODULE Spec2Model ----
(***************************************************************************)
(* Model of index.js (Monday.com proxy server): the in-memory TTL cache,   *)
(* the monday() fetch helper with per-query caching, the GET /jobs/my      *)
(* handler and getMaterialsForJob.                                         *)
(***************************************************************************)
EXTENDS Integers, Sequences, FiniteSets, TLC

VARIABLES
    cache,      \* _cache: key -> [data, expires]
    now,        \* Date.now() in ms
    ticks,      \* number of clock advances so far (bounds the run)
    lastSet,    \* per key: the most recent direct cacheSet call (history)
    ret,        \* the most recent direct call of a helper and its result (history)
    env,        \* process.env: which column ids are configured
    heap,       \* the objects requests hold and hand to the cache: address -> content
    created,    \* upstream content of TIMESHEETS_BOARD_ID: the items created so far
    born,       \* per cache key: when the oldest upstream page behind the entry was
                \* fetched, and how long the traversal that computed it ran (history)
    jobsBoard,  \* upstream content of JOBS_BOARD_ID: pages of jobs with subitems
    up,         \* upstream cursor tokens minted so far: token -> [q, page]
    sent,       \* upstream page requests sent so far (history)
    req         \* the GET /jobs/my requests: position and locals of each

vars == <<cache, now, ticks, lastSet, ret, env, heap, created, born, jobsBoard, up, sent, req>>
histVars == <<lastSet, ret>>
aggVars == <<env, heap, created, born, jobsBoard, up, sent, req>>

(***************************************************************************)
(* Bounds and program constants                                            *)
(***************************************************************************)
CACHE_TTL_SECONDS == 300
MsPerSecond == 1000
MaxTicks == 3

\* keys, values and ttl arguments used to drive the cache directly
Keys == {"k1", "k2"}
Vals == {"v1", "v2"}
Ttls == {1, CACHE_TTL_SECONDS}
TickSteps == {1} \cup {t * MsPerSecond : t \in Ttls}

(***************************************************************************)
(* simple in-memory cache (TTL seconds)                                    *)
(***************************************************************************)
Absent == [hit |-> FALSE]
Present(d) == [hit |-> TRUE, data |-> d]

Remove(c, key) == [k \in (DOMAIN c) \ {key} |-> c[k]]

\* plausible slips of the expiry test, used to show the claims depend on it
ExpiredNever(e, t) == FALSE
ExpiredAtBoundary(e, t) == t >= e.expires

Expired(e, t) == t > e.expires

\* value returned by cacheGet(key) at time t
cacheGet(c, key, t) ==
    IF key \notin DOMAIN c THEN Absent
    ELSE IF Expired(c[key], t) THEN Absent
    ELSE Present(c[key].data)

\* slip of the eviction: the expired entry stays in the store
cacheGetStoreKeep(c, key, t) == c

\* the store after cacheGet(key) at time t: an expired entry is deleted
cacheGetStore(c, key, t) ==
    IF key \in DOMAIN c /\ Expired(c[key], t) THEN Remove(c, key) ELSE c

\* slips of the store: an entry that expires later is kept, and the new
\* value is stored with the later of the two expiry times
cacheSetKeepLater(c, key, data, ttl, t) ==
    IF key \in DOMAIN c /\ c[key].expires > t + ttl * MsPerSecond THEN c
    ELSE [k \in (DOMAIN c) \cup {key} |->
            IF k = key THEN [data |-> data, expires |-> t + ttl * MsPerSecond]
            ELSE c[k]]
cacheSetMixed(c, key, data, ttl, t) ==
    [k \in (DOMAIN c) \cup {key} |->
        IF k # key THEN c[k]
        ELSE [data |-> data,
              expires |-> IF key \in DOMAIN c /\ c[key].expires > t + ttl * MsPerSecond
                          THEN c[key].expires ELSE t + ttl * MsPerSecond]]

\* a slip of the store: a capacity of one entry, the insertion evicts the rest
cacheSetEvicting(c, key, data, ttl, t) ==
    [k \in {key} |-> [data |-> data, expires |-> t + ttl * MsPerSecond]]

\* the store after cacheSet(key, data, ttl) at time t
cacheSet(c, key, data, ttl, t) ==
    [k \in (DOMAIN c) \cup {key} |->
        IF k = key THEN [data |-> data, expires |-> t + ttl * MsPerSecond]
        ELSE c[k]]

EmptyCache == [k \in {} |-> Absent]

(***************************************************************************)
(* Text, dates and column values as the handlers read them                 *)
(***************************************************************************)
\* the characters that occur in the model's texts, in code-unit order
Alphabet == " -.0123456789:@ABCDEFGHIJKLMNOPQRSTUVWXYZ_abcdefghijklmnopqrstuvwxyz"
UpperChars == "ABCDEFGHIJKLMNOPQRSTUVWXYZ"
LowerChars == "abcdefghijklmnopqrstuvwxyz"
Digits == "0123456789"

At(s, i) == SubSeq(s, i, i)
IndexIn(c, chars) == CHOOSE i \in 1..Len(chars) : At(chars, i) = c
IsIn(c, chars) == \E i \in 1..Len(chars) : At(chars, i) = c

CharSet == {At(Alphabet, i) : i \in 1..Len(Alphabet)}
\* code-unit rank and lower-case image of each character
CodeOf == [c \in CharSet |-> IndexIn(c, Alphabet)]
LowerOf ==
    [c \in CharSet |->
        IF IsIn(c, UpperChars) THEN At(LowerChars, IndexIn(c, UpperChars)) ELSE c]

Lower(c) == LowerOf[c]

\* String.prototype.toLowerCase
RECURSIVE toLowerCase(_)
toLowerCase(s) ==
    IF s = "" THEN "" ELSE Lower(At(s, 1)) \o toLowerCase(SubSeq(s, 2, Len(s)))

\* String.prototype.trim
RECURSIVE trimStart(_)
trimStart(s) ==
    IF s # "" /\ At(s, 1) = " " THEN trimStart(SubSeq(s, 2, Len(s))) ELSE s
RECURSIVE trimEnd(_)
trimEnd(s) ==
    IF s # "" /\ At(s, Len(s)) = " " THEN trimEnd(SubSeq(s, 1, Len(s) - 1)) ELSE s
trim(s) == trimEnd(trimStart(s))

TrimLower(s) == toLowerCase(trim(s))

\* JavaScript's a <= b on strings: code units compared left to right
RECURSIVE StrLeq(_, _)
StrLeq(a, b) ==
    IF a = "" THEN TRUE
    ELSE IF b = "" THEN FALSE
    ELSE LET x == CodeOf[At(a, 1)]
             y == CodeOf[At(b, 1)]
         IN  IF x < y THEN TRUE
             ELSE IF x > y THEN FALSE
             ELSE StrLeq(SubSeq(a, 2, Len(a)), SubSeq(b, 2, Len(b)))

\* slip of the prefix test: the token is looked for anywhere in the text
startsWithAnywhere(s, prefix) ==
    \E i \in 1..(Len(s) - Len(prefix) + 1) : SubSeq(s, i, i + Len(prefix) - 1) = prefix

\* String.prototype.startsWith
startsWith(s, prefix) ==
    Len(prefix) <= Len(s) /\ SubSeq(s, 1, Len(prefix)) = prefix

\* String.prototype.includes
includes(s, sub) ==
    \E i \in 1..(Len(s) - Len(sub) + 1) : SubSeq(s, i, i + Len(sub) - 1) = sub

\* /pattern/i.test(s) for a literal lower-case pattern
TestCI(pattern, s) ==
    \E i \in 1..(Len(s) - Len(pattern) + 1) :
        toLowerCase(SubSeq(s, i, i + Len(pattern) - 1)) = pattern

\* new Date(`${iso}T12:00:00Z`).getUTCDay()
getUTCDay(iso) ==
    CASE iso = "2024-01-05" -> 5
      [] iso = "2024-01-06" -> 6
      [] iso = "2024-01-07" -> 0
      [] iso = "2024-01-08" -> 1

\* slip of the weekday test: Saturday is not taken for a weekend day
isWeekendSundayOnly(iso) ==
    IF iso = "" THEN FALSE ELSE getUTCDay(iso) = 0

isWeekend(iso) ==
    IF iso = "" THEN FALSE
    ELSE getUTCDay(iso) = 0 \/ getUTCDay(iso) = 6

\* raw value of a connect-boards column: absent, malformed JSON, or a list of ids
LinkNone == [kind |-> "none"]
LinkBad == [kind |-> "bad"]
Link(ids) == [kind |-> "ids", ids |-> ids]

\* slip of the error handling: an unparsable value is not taken for empty
parseConnectIdsBadIsAny(value) ==
    IF value.kind = "ids" THEN value.ids
    ELSE IF value.kind = "bad" THEN <<"10", "11">>
    ELSE <<>>

parseConnectIds(value) ==
    IF value.kind = "ids" THEN value.ids ELSE <<>>

\* raw value of a timeline column: absent, malformed JSON, or {from, to}
TlNone == [kind |-> "none"]
TlBad == [kind |-> "bad"]
Tl(from, to) == [kind |-> "range", from |-> from, to |-> to]

\* slip of the timeline block: endDate does not fall back to tl.from
timelineOfNoDefault(tlVal) ==
    IF tlVal.kind = "range"
    THEN [startDate |-> tlVal.from, endDate |-> tlVal.to]
    ELSE [startDate |-> "", endDate |-> ""]

\* startDate / endDate as the timeline block of GET /jobs/my computes them
timelineOf(tlVal) ==
    IF tlVal.kind = "range"
    THEN [startDate |-> tlVal.from,
          endDate |-> IF tlVal.to # "" THEN tlVal.to ELSE tlVal.from]
    ELSE [startDate |-> "", endDate |-> ""]

SeqIncludes(sq, x) == \E i \in 1..Len(sq) : sq[i] = x

(***************************************************************************)
(* Upstream boards                                                         *)
(***************************************************************************)
Contractor(id, email) == [id |-> id, email |-> email]
Sub(id, link, email, tl) == [id |-> id, link |-> link, email |-> email, tl |-> tl]
Job(id, subitems) == [id |-> id, subitems |-> subitems]

\* CONTRACTORS_BOARD_ID: three pages; "a@x.io" is carried by three records,
\* two of them on one page
ContractorsBoard ==
    << << Contractor("10", "B@X.IO") >>,
       << Contractor("11", " A@x.io "), Contractor("12", "a@x.io") >>,
       << Contractor("13", "A@X.IO") >> >>

\* a materials line: its name and the column values getMaterialsForJob reads
MatItem(id, name, title, notes, status, supplierText, supplierValue) ==
    [id |-> id, name |-> name, title |-> title, notes |-> notes, status |-> status,
     supplier |-> [text |-> supplierText, value |-> supplierValue]]
\* an item of MATERIALS_BOARD_ID; its subitems may be missing (not an array)
MatParent(id, name, hasSubitems, subitems) ==
    [id |-> id, name |-> name, hasSubitems |-> hasSubitems, subitems |-> subitems]

\* SUBITEMS_MATERIALS_BOARD_ID: two pages
SubMaterialsBoard ==
    << << MatItem("m1", "2762-5 tiles", "Tiles", "white", " Ordered ", "Acme", Link(<<"71">>)),
          MatItem("m2", "2762-6 paint", "Paint", "", "Ordered", "", LinkNone) >>,
       << MatItem("m3", "job 2762-5 extra", "Extra", "", "", "", LinkNone),
          MatItem("m4", "2762-5 grout", "Grout", "grey", "  ", "Bolt", LinkBad),
          MatItem("m5", "2762-5 glue", "Glue", "", "Ordered", "", LinkNone),
          MatItem("m6", "2763-1 sealant", "Sealant", "", "Ordered", "", LinkNone),
          MatItem("m7", "2763-1 primer", "Primer", "", "constructor", "", LinkNone) >> >>

\* MATERIALS_BOARD_ID: three pages; three parents start with 2762, two of
\* them on one page
MaterialsBoard ==
    << << MatParent("p1", "1000 Shed", TRUE,
              << MatItem("x1", "nails", "Nails", "", "Ordered", "", LinkNone) >>),
          MatParent("p2", "3000 Empty", FALSE, <<>>) >>,
       << MatParent("p3", "2762 Main Job", TRUE,
              << MatItem("y1", "2762-5 tiles", "Tiles", "", "Ordered", "", LinkNone),
                 MatItem("y2", "general supplies", "Supplies", "", "", "", LinkNone),
                 MatItem("y3", "2762 skip hire", "Skip", "", "Booked", "", LinkNone) >>),
          MatParent("p6", "27625 Annex", TRUE,
              << MatItem("v1", "bricks", "Bricks", "", "", "", LinkNone) >>),
          MatParent("p4", "4000 Only Sub Lines", TRUE,
              << MatItem("z1", "4000-1 sand", "Sand", "", "", "", LinkNone) >>) >>,
       << MatParent("p5", "2762 Second", TRUE,
              << MatItem("w1", "late", "Late", "", "", "", LinkNone) >>) >> >>

TsItem(id, worker, jobNo, date, group) ==
    [id |-> id, worker |-> worker, jobNo |-> jobNo, date |-> date, group |-> group]

\* TIMESHEETS_BOARD_ID as three pages; later pages hold newer dates
TimesheetsBoard ==
    << << TsItem("t1", "Al B", "2762-5", "2024-01-05", "To Be Approved"),
          TsItem("t2", "Bo", "2762-5", "2024-01-08", "Approved"),
          TsItem("t3", "al  b", " 2762-5 ", "2024-01-07", "Payroll Processed") >>,
       << TsItem("t4", "Al B", "2763-1", "2024-01-06", "Approved"),
          TsItem("t5", "", "2762-5", "", "Draft"),
          TsItem("t6", "AL B", "2762-5", "2024-01-07", "To Be Approved") >>,
       << TsItem("t7", "Alan", "2762-5", "2024-01-08", "Approved - Upcoming Payroll"),
          TsItem("t8", "Al B", "2762-5", "2024-01-08", "Approved") >> >>

Board(q) ==
    CASE q = "contractors" -> ContractorsBoard
      [] q = "jobs" -> jobsBoard
      [] q = "subMaterials" -> SubMaterialsBoard
      [] q = "materials" -> MaterialsBoard
      [] q = "timesheets" -> TimesheetsBoard

\* the page an upstream request with this cursor reads (null cursor: first page)
PageIndex(cursor) == IF cursor = 0 THEN 1 ELSE up[cursor].page

\* j.data of the upstream answer: the page's items and a freshly minted cursor
\* token when more pages follow
UpstreamData(q, cursor) ==
    LET i == PageIndex(cursor) IN
    [items |-> Board(q)[i],
     cursor |-> IF i < Len(Board(q)) THEN Len(up) + 1 ELSE 0]

UpstreamTokens(q, cursor) ==
    LET i == PageIndex(cursor) IN
    IF i < Len(Board(q)) THEN Append(up, [q |-> q, page |-> i + 1]) ELSE up

(***************************************************************************)
(* Monday helper (with caching for idempotent queries)                     *)
(***************************************************************************)
\* keyBase of monday(): query and variables, here the board query and cursor
MondayKey(q, cursor) ==
    "m:" \o q \o "::" \o (IF cursor = 0 THEN "null" ELSE ToString(cursor))

\* outcomes of one upstream call that make monday() throw: fetch rejects,
\* the answer carries errors, or it carries no data (cacheSet then throws on
\* JSON.stringify(undefined).length)
FailKinds == {"reject", "errors", "nodata"}

(***************************************************************************)
(* GET /jobs/my                                                            *)
(***************************************************************************)
Max(a, b) == IF a >= b THEN a ELSE b
Min(a, b) == IF a <= b THEN a ELSE b

pageOf(arg) == Max(1, arg)
limitOf(arg) == Min(100, Max(1, arg))
offsetOf(rq) == (rq.page - 1) * rq.limit

BoolText(b) == IF b THEN "true" ELSE "false"

cacheKey(email, onDate, includeWeekends, page, limit) ==
    "jobs:" \o email \o ":" \o onDate \o ":" \o BoolText(includeWeekends)
        \o ":" \o ToString(page) \o ":" \o ToString(limit)

IdleReq ==
    [kind |-> "none", pc |-> "idle", phase |-> "none", key |-> "",
     email |-> "", onDate |-> "", includeWeekends |-> TRUE, page |-> 1, limit |-> 1,
     cursor |-> 0, contractorId |-> "",
     totalPossible |-> 0, collected |-> 0, results |-> <<>>,
     status |-> 0, body |-> [error |-> "none"],
     \* locals and outcome of getMaterialsForJob
     subToken |-> "", mainToken |-> "", rows |-> <<>>, returned |-> FALSE,
     result |-> [null |-> TRUE], threw |-> FALSE,
     jobNumRaw |-> "", matScopeStatus |-> "",
     \* locals of GET /timesheets
     wantName |-> "", jobNumberFilter |-> "", strict |-> FALSE, wantDebug |-> FALSE,
     sampleNames |-> <<>>,
     \* history, read by the claims only
     src |-> "none", wrote |-> {}, pages |-> 0, gotPages |-> 0, lastCursor |-> 0,
     consulted |-> FALSE, hadEntry |-> FALSE, hadData |-> [error |-> "none"],
     fromCache |-> FALSE, failedAt |-> -1, failedPhase |-> "none",
     startedAt |-> -1, oldest |-> -1, answered |-> FALSE, stale |-> 0, took |-> 0]

\* res.json(out) after cacheSet(cacheKey, out)
Finish(rq, out, c, t) ==
    [rq |-> [rq EXCEPT !.pc = "done", !.status = 200, !.body = out,
                       !.wrote = @ \cup {rq.key},
                       !.answered = (rq.oldest # -1),
                       !.stale = IF rq.oldest # -1 THEN t - rq.oldest ELSE 0,
                       !.took = IF rq.oldest # -1 THEN t - rq.startedAt ELSE 0,
                       !.startedAt = -1, !.oldest = -1],
     cache |-> cacheSet(c, rq.key, out, CACHE_TTL_SECONDS, t)]

\* slip of the comparison: the column text is compared as it stands
RECURSIVE FirstEmailMatchRaw(_, _, _)
FirstEmailMatchRaw(items, i, email) ==
    IF i > Len(items) THEN 0
    ELSE IF items[i].email = email THEN i
    ELSE FirstEmailMatchRaw(items, i + 1, email)

\* index of the first item of the page whose email column matches, or 0
RECURSIVE FirstEmailMatch(_, _, _)
FirstEmailMatch(items, i, email) ==
    IF i > Len(items) THEN 0
    ELSE IF TrimLower(items[i].email) = email THEN i
    ELSE FirstEmailMatch(items, i + 1, email)

\* slips of the "find contractor id" loop: the loop runs on to the last page
\* after a match, and the "no contractor" return is missing
ContractorsPageFullScan(rq, data, c, t) ==
    LET i == IF rq.contractorId = "" THEN FirstEmailMatch(data.items, 1, rq.email) ELSE 0
        found == IF i # 0 THEN data.items[i].id ELSE rq.contractorId
    IN  IF data.cursor # 0
        THEN [rq |-> [rq EXCEPT !.contractorId = found, !.cursor = data.cursor,
                                !.pc = "call"],
              cache |-> c]
        ELSE IF found # ""
        THEN [rq |-> [rq EXCEPT !.contractorId = found, !.phase = "jobs",
                                !.pc = "call", !.cursor = 0, !.src = "none"],
              cache |-> c]
        ELSE Finish(rq, [items |-> <<>>, total |-> 0, page |-> rq.page,
                         limit |-> rq.limit], c, t)

ContractorsPageNoGuard(rq, data, c, t) ==
    LET i == FirstEmailMatch(data.items, 1, rq.email)
    IN  IF i = 0 /\ data.cursor # 0
        THEN [rq |-> [rq EXCEPT !.cursor = data.cursor, !.pc = "call"], cache |-> c]
        ELSE [rq |-> [rq EXCEPT !.contractorId = IF i # 0 THEN data.items[i].id ELSE "",
                                !.phase = "jobs", !.pc = "call",
                                !.cursor = 0, !.src = "none"],
              cache |-> c]

\* one turn of the "find contractor id" loop on the page just received
ContractorsPage(rq, data, c, t) ==
    LET i == FirstEmailMatch(data.items, 1, rq.email)
        cCursor == data.cursor
    IN  IF i # 0
        THEN [rq |-> [rq EXCEPT !.contractorId = data.items[i].id,
                                !.phase = "jobs", !.pc = "call",
                                !.cursor = 0, !.src = "none"],
              cache |-> c]
        ELSE IF cCursor # 0
        THEN [rq |-> [rq EXCEPT !.cursor = cCursor, !.pc = "call"], cache |-> c]
        ELSE Finish(rq, [items |-> <<>>, total |-> 0, page |-> rq.page,
                         limit |-> rq.limit], c, t)

\* the subitems of a page in traversal order, each with its parent job
RECURSIVE Flatten(_)
Flatten(items) ==
    IF items = <<>> THEN <<>>
    ELSE LET job == Head(items) IN
         [i \in 1..Len(job.subitems) |-> [job |-> job.id, s |-> job.subitems[i]]]
            \o Flatten(Tail(items))

\* slip of the link test: only the first linked id is looked at
matchByLinkFirstOnly(s, rq) ==
    LET value == IF env.linkCol THEN s.link ELSE LinkNone
        ids == parseConnectIds(value)
    IN  ids # <<>> /\ ids[1] = rq.contractorId

matchByLink(s, rq) ==
    LET value == IF env.linkCol THEN s.link ELSE LinkNone
    IN  SeqIncludes(parseConnectIds(value), rq.contractorId)

matchByEmail(s, rq) ==
    IF env.emailCol THEN TrimLower(s.email) = rq.email ELSE FALSE

subTimeline(s) == timelineOf(IF env.timelineCol THEN s.tl ELSE TlNone)

\* the subitem passes the match test and the onDate / weekend filter
Included(s, rq) ==
    /\ matchByLink(s, rq) \/ matchByEmail(s, rq)
    /\ rq.onDate # "" =>
        /\ ~(~rq.includeWeekends /\ isWeekend(rq.onDate))
        /\ StrLeq(subTimeline(s).startDate, rq.onDate)
        /\ StrLeq(rq.onDate, subTimeline(s).endDate)

\* slips of the window accounting, used to show the claims depend on it
StopNever(collected, totalPossible, offset, limit) == FALSE
TakeFromOffset(totalPossible, collected, offset, limit) ==
    totalPossible >= offset /\ collected < limit

\* the test that ends the scan (break loopPages)
StopCondition(collected, totalPossible, offset, limit) ==
    collected >= limit /\ totalPossible >= offset + limit

\* the test that puts a counted match into results
TakeCondition(totalPossible, collected, offset, limit) ==
    totalPossible > offset /\ collected < limit

\* the two nested for-loops over one page, from subitem i on
RECURSIVE ScanFrom(_, _, _, _)
ScanFrom(cs, i, st, rq) ==
    IF i > Len(cs) THEN st
    ELSE IF ~Included(cs[i].s, rq) THEN ScanFrom(cs, i + 1, st, rq)
    ELSE LET tp == st.totalPossible + 1
             take == TakeCondition(tp, st.collected, offsetOf(rq), rq.limit)
             st2 == [totalPossible |-> tp,
                     collected |-> IF take THEN st.collected + 1 ELSE st.collected,
                     results |-> IF take
                                 THEN Append(st.results,
                                        [parentJobId |-> cs[i].job,
                                         subitemId |-> cs[i].s.id,
                                         timeline |-> subTimeline(cs[i].s)])
                                 ELSE st.results,
                     stopped |-> FALSE]
         IN  IF StopCondition(st2.collected, tp, offsetOf(rq), rq.limit)
             THEN [st2 EXCEPT !.stopped = TRUE]
             ELSE ScanFrom(cs, i + 1, st2, rq)

\* one turn of loopPages on the page just received
JobsPage(rq, data, c, t) ==
    LET st == ScanFrom(Flatten(data.items), 1,
                       [totalPossible |-> rq.totalPossible, collected |-> rq.collected,
                        results |-> rq.results, stopped |-> FALSE], rq)
        jCursor == IF st.stopped THEN 0 ELSE data.cursor
        rq2 == [rq EXCEPT !.totalPossible = st.totalPossible,
                          !.collected = st.collected,
                          !.results = st.results,
                          !.cursor = jCursor,
                          !.lastCursor = data.cursor,
                          !.gotPages = @ + 1]
    IN  IF jCursor # 0
        THEN [rq |-> [rq2 EXCEPT !.pc = "call"], cache |-> c]
        ELSE Finish(rq2, [items |-> st.results, total |-> st.totalPossible,
                          page |-> rq.page, limit |-> rq.limit], c, t)

(***************************************************************************)
(* Materials helpers and getMaterialsForJob                                *)
(***************************************************************************)
DigitSet == {At(Digits, i) : i \in 1..Len(Digits)}
WordSet ==
    DigitSet \cup {"_"} \cup {At(UpperChars, i) : i \in 1..Len(UpperChars)}
             \cup {At(LowerChars, i) : i \in 1..Len(LowerChars)}

IsDigitAt(s, i) == i >= 1 /\ i <= Len(s) /\ At(s, i) \in DigitSet
IsWordAt(s, i) == i >= 1 /\ i <= Len(s) /\ At(s, i) \in WordSet
\* \b between positions i-1 and i
BoundaryAt(s, i) == IsWordAt(s, i - 1) # IsWordAt(s, i)

\* SUBTOKEN_RE = /\b\d{4}-\d\b/ matches at position i
SubTokenAt(s, i) ==
    /\ \A k \in 0..3 : IsDigitAt(s, i + k)
    /\ i + 4 <= Len(s) /\ At(s, i + 4) = "-"
    /\ IsDigitAt(s, i + 5)
    /\ BoundaryAt(s, i) /\ BoundaryAt(s, i + 6)

\* MAINTOKEN_RE = /\b(\d{4})\b/ matches at position i
MainTokenAt(s, i) ==
    /\ \A k \in 0..3 : IsDigitAt(s, i + k)
    /\ BoundaryAt(s, i) /\ BoundaryAt(s, i + 4)

FirstIndex(S) == CHOOSE i \in S : \A j \in S : i <= j

\* s.split("-")[0]
RECURSIVE BeforeDash(_)
BeforeDash(s) ==
    IF s = "" \/ At(s, 1) = "-" THEN ""
    ELSE At(s, 1) \o BeforeDash(SubSeq(s, 2, Len(s)))

\* slip of the derivation: mainToken is matched on the text independently
splitJobTokensIndependent(jobNumRaw) ==
    LET subAt == {i \in 1..Len(jobNumRaw) : SubTokenAt(jobNumRaw, i)}
        mainAt == {i \in 1..Len(jobNumRaw) : MainTokenAt(jobNumRaw, i)}
    IN  [subToken |-> IF subAt = {} THEN ""
                      ELSE SubSeq(jobNumRaw, FirstIndex(subAt), FirstIndex(subAt) + 5),
         mainToken |-> IF mainAt = {} THEN ""
                       ELSE SubSeq(jobNumRaw, FirstIndex(mainAt), FirstIndex(mainAt) + 3)]

splitJobTokens(jobNumRaw) ==
    LET subAt == {i \in 1..Len(jobNumRaw) : SubTokenAt(jobNumRaw, i)}
        mainAt == {i \in 1..Len(jobNumRaw) : MainTokenAt(jobNumRaw, i)}
        subToken == IF subAt = {} THEN ""
                    ELSE SubSeq(jobNumRaw, FirstIndex(subAt), FirstIndex(subAt) + 5)
        mainToken == IF subToken # "" THEN BeforeDash(subToken)
                     ELSE IF mainAt = {} THEN ""
                     ELSE SubSeq(jobNumRaw, FirstIndex(mainAt), FirstIndex(mainAt) + 3)
    IN  [subToken |-> subToken, mainToken |-> mainToken]

\* cvText: String(cvs[id]?.text ?? "").trim()
cvText(text) == trim(text)

\* cvRelation: the column's text and the linked ids of its raw value
cvRelation(cv) ==
    [text |-> trim(cv.text),
     ids |-> IF cv.value.kind = "ids" THEN cv.value.ids ELSE <<>>]

\* the row pushed for a materials line
MatRow(it) ==
    LET supplier == IF env.supplierCol THEN cvRelation(it.supplier)
                    ELSE [text |-> "", ids |-> <<>>]
    IN  [id |-> it.id, name |-> it.name,
         title |-> cvText(it.title), notes |-> cvText(it.notes),
         status |-> IF cvText(it.status) # "" THEN cvText(it.status) ELSE "Uncategorised",
         supplier |-> supplier.text, supplierIds |-> supplier.ids]

StatusKey(row) == IF row.status # "" THEN row.status ELSE "Uncategorised"

groupByStatus(rows) ==
    [key \in {StatusKey(rows[i]) : i \in 1..Len(rows)} |->
        SelectSeq(rows, LAMBDA row : StatusKey(row) = key)]

\* byStatus starts as {}: a key naming a property every object inherits reads
\* as truthy before any row is stored, and the push on it is a TypeError
ObjectPrototypeKeys ==
    {"constructor", "toString", "toLocaleString", "valueOf", "hasOwnProperty",
     "isPrototypeOf", "propertyIsEnumerable", "__proto__"}
groupByStatusThrows(rows) ==
    \E i \in 1..Len(rows) : StatusKey(rows[i]) \in ObjectPrototypeKeys

NullResult == [null |-> TRUE]
TypeErrorThrown == [null |-> TRUE, thrown |-> "TypeError"]

\* return of getMaterialsForJob, or the error leaving it
MatReturn(rq, result) ==
    IF result = TypeErrorThrown
    THEN [rq EXCEPT !.pc = "done", !.threw = TRUE]
    ELSE [rq EXCEPT !.pc = "done", !.returned = TRUE, !.result = result]

\* slip of the return: the grouping is returned also when no row was kept
MatResultAlways(mode, rows) ==
    IF groupByStatusThrows(rows) THEN TypeErrorThrown
    ELSE [null |-> FALSE, mode |-> mode, byStatus |-> groupByStatus(rows)]

MatResult(mode, rows) ==
    IF rows = <<>> THEN NullResult
    ELSE IF groupByStatusThrows(rows) THEN TypeErrorThrown
    ELSE [null |-> FALSE, mode |-> mode, byStatus |-> groupByStatus(rows)]

\* the rows of the kept items, in order
RowsOf(kept) == [i \in 1..Len(kept) |-> MatRow(kept[i])]

\* CASE A: one turn of the do-while over SUBITEMS_MATERIALS_BOARD_ID
SubMaterialsPage(rq, data, c, t) ==
    LET cursor == data.cursor
        rows == rq.rows \o RowsOf(SelectSeq(data.items,
                                    LAMBDA it : startsWith(it.name, rq.subToken)))
        rq2 == [rq EXCEPT !.rows = rows, !.cursor = cursor, !.lastCursor = cursor,
                          !.gotPages = @ + 1]
    IN  [rq |-> IF cursor # 0 THEN [rq2 EXCEPT !.pc = "call"]
                ELSE MatReturn(rq2, MatResult("Only Sub Task Materials", rows)),
         cache |-> c]

\* slip of the parent search: the last item of the page that starts with the
\* token is taken
RECURSIVE LastPrefixMatch(_, _, _)
LastPrefixMatch(items, i, token) ==
    IF i > Len(items) THEN 0
    ELSE LET later == LastPrefixMatch(items, i + 1, token)
         IN  IF later # 0 THEN later
             ELSE IF startsWith(items[i].name, token) THEN i ELSE 0

\* index of the first item of the page whose name starts with the token, or 0
RECURSIVE FirstPrefixMatch(_, _, _)
FirstPrefixMatch(items, i, token) ==
    IF i > Len(items) THEN 0
    ELSE IF startsWith(items[i].name, token) THEN i
    ELSE FirstPrefixMatch(items, i + 1, token)

\* CASE B: one turn of the parent search over MATERIALS_BOARD_ID, and the
\* rows of the parent once it is found
MaterialsPage(rq, data, c, t) ==
    LET i == FirstPrefixMatch(data.items, 1, rq.mainToken)
        cursor == IF i # 0 THEN 0 ELSE data.cursor
        rq2 == [rq EXCEPT !.cursor = cursor, !.lastCursor = data.cursor,
                          !.gotPages = @ + 1]
    IN  [rq |->
            IF cursor # 0 THEN [rq2 EXCEPT !.pc = "call"]
            ELSE IF i = 0 \/ ~data.items[i].hasSubitems THEN MatReturn(rq2, NullResult)
            ELSE LET rows == RowsOf(SelectSeq(data.items[i].subitems,
                                LAMBDA si : ~startsWith(si.name, rq.mainToken \o "-")))
                 IN  MatReturn([rq2 EXCEPT !.rows = rows],
                               MatResult("Include Main Scope Materials", rows)),
         cache |-> c]

(***************************************************************************)
(* GET /timesheets: status from group title                                *)
(***************************************************************************)
\* /^approved\b/.test(g)
StartsWithApprovedWord(g) ==
    /\ startsWith(g, "approved")
    /\ ~IsWordAt(g, Len("approved") + 1)

\* slip of the precedence: the approved rules are tried before "to be approved"
statusOfApprovedFirst(groupTitleRaw) ==
    LET g == TrimLower(groupTitleRaw)
    IN  IF \/ includes(g, "payroll processed")
           \/ includes(g, "approved - upcoming payroll")
           \/ includes(g, "approved")
        THEN "approved"
        ELSE "pending"

\* the status a timesheet item gets from the title of its group
statusOf(groupTitleRaw) ==
    LET g == TrimLower(groupTitleRaw)
    IN  IF includes(g, "to be approved") THEN "pending"
        ELSE IF \/ includes(g, "payroll processed")
                \/ includes(g, "approved - upcoming payroll")
                \/ StartsWithApprovedWord(g)
        THEN "approved"
        ELSE "pending"

\* slip of the legacy rule: only "approved" is looked for
statusOfLegacyApprovedOnly(groupTitleRaw) ==
    IF includes(toLowerCase(groupTitleRaw), "approved") THEN "approved" ELSE "pending"

\* the status the second GET /timesheets handler of the file gives the item
statusOfLegacy(groupTitleRaw) ==
    LET groupTitle == toLowerCase(groupTitleRaw)
        approved == includes(groupTitle, "approved") \/ includes(groupTitle, "payroll")
    IN  IF approved THEN "approved" ELSE "pending"

(***************************************************************************)
(* GET /timesheets: the traversal of TIMESHEETS_BOARD_ID                   *)
(***************************************************************************)
\* .replace(/\s+/g, " "): every run of spaces becomes one space
RECURSIVE collapseSpaces(_)
collapseSpaces(s) ==
    IF Len(s) < 2 THEN s
    ELSE IF At(s, 1) = " " /\ At(s, 2) = " " THEN collapseSpaces(SubSeq(s, 2, Len(s)))
    ELSE SubSeq(s, 1, 1) \o collapseSpaces(SubSeq(s, 2, Len(s)))

norm(s) == trim(collapseSpaces(toLowerCase(s)))

\* Math.max(1, Math.min(200, Number(req.query.limit || 50)))
TsDefaultLimit == 50
limitOfTs(arg) == Max(1, Min(200, IF arg = 0 THEN TsDefaultLimit ELSE arg))

tsCacheKey(nameRaw, jobNumberFilter, limit, strict, loose) ==
    "ts:" \o "TIMESHEETS_BOARD_ID" \o ":" \o nameRaw \o ":" \o jobNumberFilter
        \o ":" \o ToString(limit) \o ":" \o BoolText(strict) \o ":" \o BoolText(loose)

\* the worker / name filter and the job number filter of one item
nameMatches(rq, worker) ==
    rq.wantName # "" =>
        LET got == norm(worker)
        IN  IF rq.strict THEN got = rq.wantName
            ELSE got = rq.wantName \/ includes(got, rq.wantName)
                    \/ includes(rq.wantName, got)

jobMatches(rq, jobNo) ==
    rq.jobNumberFilter # "" => trim(jobNo) = rq.jobNumberFilter

tsRow(it) ==
    [id |-> it.id, dateISO |-> it.date, jobNumber |-> it.jobNo,
     workerName |-> it.worker, status |-> statusOf(it.group)]

\* slip of the cap: the collection is never full
tsFullNever(n, limit) == FALSE

\* items.length >= limit * 2
tsFull(n, limit) == n >= limit * 2

SampleCap == 50

\* the for-loop over one page, from item i on: sample names, filters, push,
\* break when the collection is full
RECURSIVE tsScanFrom(_, _, _, _)
tsScanFrom(its, i, st, rq) ==
    IF i > Len(its) THEN st
    ELSE LET it == its[i]
             st1 == [st EXCEPT !.sampleNames =
                        IF Len(@) < SampleCap THEN Append(@, it.worker) ELSE @]
         IN  IF ~nameMatches(rq, it.worker) \/ ~jobMatches(rq, it.jobNo)
             THEN tsScanFrom(its, i + 1, st1, rq)
             ELSE LET st2 == [st1 EXCEPT !.items = Append(@, tsRow(it))]
                  IN  IF tsFull(Len(st2.items), rq.limit) THEN st2
                      ELSE tsScanFrom(its, i + 1, st2, rq)

\* items.sort(...): newest first by dateISO, equal dates in their order
RECURSIVE insertByDate(_, _)
insertByDate(row, sorted) ==
    IF sorted = <<>> THEN <<row>>
    ELSE IF StrLeq(row.dateISO, Head(sorted).dateISO)
         THEN <<Head(sorted)>> \o insertByDate(row, Tail(sorted))
         ELSE <<row>> \o sorted

RECURSIVE sortByDate(_)
sortByDate(rows) ==
    IF rows = <<>> THEN <<>>
    ELSE insertByDate(rows[Len(rows)], sortByDate(SubSeq(rows, 1, Len(rows) - 1)))

\* the body answered for a payload: sampleNames only with debug=1
tsBody(payload, wantDebug) ==
    IF wantDebug THEN payload ELSE [items |-> payload.items]

\* one turn of the do-while on the page just received; after the last turn the
\* sort, the slice, the cacheSet and the answer
TimesheetsPage(rq, data, c, t) ==
    LET st == tsScanFrom(data.items, 1,
                         [items |-> rq.results, sampleNames |-> rq.sampleNames], rq)
        cursor == data.cursor
        rq2 == [rq EXCEPT !.results = st.items, !.sampleNames = st.sampleNames,
                          !.cursor = cursor, !.lastCursor = cursor,
                          !.gotPages = @ + 1]
    IN  IF cursor # 0 /\ ~tsFull(Len(st.items), rq.limit)
        THEN [rq |-> [rq2 EXCEPT !.pc = "call"], cache |-> c]
        ELSE LET sorted == sortByDate(st.items)
                 payload == [items |-> SubSeq(sorted, 1, Min(rq.limit, Len(sorted))),
                             sampleNames |-> st.sampleNames]
             IN  [rq |-> [rq2 EXCEPT !.pc = "done", !.status = 200,
                                     !.body = tsBody(payload, rq.wantDebug),
                                     !.wrote = @ \cup {rq.key}],
                  cache |-> cacheSet(c, rq.key, payload, CACHE_TTL_SECONDS, t)]

AfterPage(rq, data, c, t) ==
    CASE rq.phase = "contractors" -> ContractorsPage(rq, data, c, t)
      [] rq.phase = "jobs" -> JobsPage(rq, data, c, t)
      [] rq.phase = "subMaterials" -> SubMaterialsPage(rq, data, c, t)
      [] rq.phase = "materials" -> MaterialsPage(rq, data, c, t)
      [] rq.phase = "timesheets" -> TimesheetsPage(rq, data, c, t)

\* slips of the tests on the scope status text and on the configuration
optOutCaseSensitive(matScopeStatus) ==
    matScopeStatus = "" \/ includes(matScopeStatus, "No Materials")
wantAnyMaterials(matScopeStatus) == TestCI("materials", matScopeStatus)
columnsMissingAll == ~env.titleCol /\ ~env.notesCol /\ ~env.statusCol

\* !matScopeStatus || /no materials/i.test(matScopeStatus)
optOut(matScopeStatus) ==
    matScopeStatus = "" \/ TestCI("no materials", matScopeStatus)
wantOnlySubOf(matScopeStatus) == TestCI("only sub task materials", matScopeStatus)
wantMainOf(matScopeStatus) == TestCI("include main scope materials", matScopeStatus)
\* !titleColId || !notesColId || !statusColId
columnsMissing == ~env.titleCol \/ ~env.notesCol \/ ~env.statusCol

\* getMaterialsForJob up to its first await
MatStart(r, jobNumRaw, matScopeStatus) ==
    /\ req[r].pc = "idle"
    /\ LET tokens == splitJobTokens(jobNumRaw)
           wantOnlySub == wantOnlySubOf(matScopeStatus)
           wantMain == wantMainOf(matScopeStatus)
           rq == [req[r] EXCEPT !.kind = "mat", !.subToken = tokens.subToken,
                                !.mainToken = tokens.mainToken,
                                !.jobNumRaw = jobNumRaw,
                                !.matScopeStatus = matScopeStatus]
       IN  req' = [req EXCEPT ![r] =
            IF optOut(matScopeStatus)
            THEN MatReturn(rq, NullResult)
            ELSE IF columnsMissing
            THEN MatReturn(rq, NullResult)
            ELSE IF wantOnlySub
            THEN IF tokens.subToken = "" \/ ~env.subBoard THEN MatReturn(rq, NullResult)
                 ELSE [rq EXCEPT !.pc = "call", !.phase = "subMaterials"]
            ELSE IF wantMain
            THEN IF tokens.mainToken = "" \/ ~env.parentBoard THEN MatReturn(rq, NullResult)
                 ELSE [rq EXCEPT !.pc = "call", !.phase = "materials"]
            ELSE MatReturn(rq, NullResult)]
    /\ UNCHANGED <<cache, now, ticks, histVars, env, heap, created, born, jobsBoard, up, sent>>

\* the handler up to its first await: parameters, result-cache lookup.
\* startedAt is the clock reading kept for the staleness history, or -1 when
\* the times of the request are not recorded.
JobsStartAt(r, a, startedAt) ==
    /\ req[r].pc = "idle"
    /\ LET email == TrimLower(a.email)
           page == pageOf(a.page)
           limit == limitOf(a.limit)
           key == cacheKey(email, a.on, a.includeWeekends, page, limit)
           hit == cacheGet(cache, key, now)
           had == key \in DOMAIN cache /\ now <= cache[key].expires
           rq == [req[r] EXCEPT !.kind = "jobs", !.email = email, !.onDate = a.on,
                                !.includeWeekends = a.includeWeekends,
                                !.page = page, !.limit = limit, !.key = key,
                                !.startedAt = startedAt,
                                !.consulted = (email # ""),
                                !.hadEntry = (email # "" /\ had),
                                !.hadData = IF email # "" /\ had THEN cache[key].data
                                            ELSE @]
       IN  IF email = ""
           THEN /\ req' = [req EXCEPT ![r] = [rq EXCEPT !.pc = "done", !.status = 400,
                                                        !.body = [error |-> "email required"]]]
                /\ cache' = cache
           ELSE /\ cache' = cacheGetStore(cache, key, now)
                /\ req' = [req EXCEPT ![r] =
                      IF hit.hit
                      THEN [rq EXCEPT !.pc = "done", !.status = 200, !.body = hit.data,
                                      !.fromCache = TRUE,
                                      !.answered = (startedAt # -1),
                                      !.stale = IF startedAt # -1
                                                THEN now - born[key].oldest ELSE 0,
                                      !.took = IF startedAt # -1
                                               THEN born[key].took ELSE 0,
                                      !.startedAt = -1]
                      ELSE [rq EXCEPT !.pc = "call", !.phase = "contractors"]]
    /\ UNCHANGED <<now, ticks, histVars, env, heap, created, born, jobsBoard, up, sent>>

JobsStart(r, a) == JobsStartAt(r, a, -1)

\* the same handler with its times recorded
JobsStartTimed(r, a) == JobsStartAt(r, a, now)

\* history of the entries: the earlier of two fetch times (-1: none yet), the
\* record of an entry stored under key, and the record of the result entry a
\* request has stored with its answer (rq.stale is the time from the fetch of
\* the oldest page behind an answer to the answer)
Earlier(a, b) == IF a = -1 THEN b ELSE Min(a, b)
Born(b, key, oldest, took) ==
    [k \in (DOMAIN b) \cup {key} |->
        IF k = key THEN [oldest |-> oldest, took |-> took] ELSE b[k]]
BornAfter(b, rq) ==
    IF rq.pc = "done" /\ rq.answered /\ rq.key \in rq.wrote
    THEN Born(b, rq.key, now - rq.stale, rq.took)
    ELSE b

\* monday(): the query is answered from the cache
MondayHit(r) ==
    LET rq == req[r]
        key == MondayKey(rq.phase, rq.cursor)
        hit == cacheGet(cache, key, now)
    IN  /\ rq.pc = "call"
        /\ hit.hit
        /\ LET counted == [rq EXCEPT !.src = "cache",
                                     !.pages = IF rq.phase # "contractors" THEN @ + 1 ELSE @,
                                     !.oldest = IF rq.startedAt # -1
                                                THEN Earlier(@, born[key].oldest) ELSE @]
               res == AfterPage(counted, hit.data, cache, now)
           IN  /\ req' = [req EXCEPT ![r] = res.rq]
               /\ cache' = res.cache
               /\ born' = BornAfter(born, res.rq)
        /\ UNCHANGED <<now, ticks, histVars, env, heap, created, jobsBoard, up, sent>>

\* monday(): cache miss, the request goes upstream
MondayMiss(r) ==
    LET rq == req[r]
        key == MondayKey(rq.phase, rq.cursor)
    IN  /\ rq.pc = "call"
        /\ ~cacheGet(cache, key, now).hit
        /\ cache' = cacheGetStore(cache, key, now)
        /\ sent' = sent \cup {[by |-> r, q |-> rq.phase, cursor |-> rq.cursor,
                                  prev |-> rq.src]}
        /\ req' = [req EXCEPT ![r] = [rq EXCEPT !.pc = "wait",
                        !.pages = IF rq.phase # "contractors" THEN @ + 1 ELSE @]]
        /\ UNCHANGED <<now, ticks, histVars, env, heap, created, born, jobsBoard, up>>

\* monday(): the upstream answers with data; it is cached and handed back
MondayOk(r) ==
    LET rq == req[r]
        key == MondayKey(rq.phase, rq.cursor)
        data == UpstreamData(rq.phase, rq.cursor)
    IN  /\ rq.pc = "wait"
        /\ up' = UpstreamTokens(rq.phase, rq.cursor)
        /\ LET stored == cacheSet(cache, key, data, CACHE_TTL_SECONDS, now)
               res == AfterPage([rq EXCEPT !.src = "upstream", !.wrote = @ \cup {key},
                                           !.oldest = IF rq.startedAt # -1
                                                      THEN Earlier(@, now) ELSE @],
                                data, stored, now)
           IN  /\ req' = [req EXCEPT ![r] = res.rq]
               /\ cache' = res.cache
               /\ born' = IF rq.startedAt # -1
                          THEN BornAfter(Born(born, key, now, 0), res.rq)
                          ELSE born
        /\ UNCHANGED <<now, ticks, histVars, env, heap, created, jobsBoard, sent>>

SentBy(r) == {e \in sent : e.by = r}

\* a slip of the error path: the loop is left as if the pages had ended and
\* what was collected so far is answered
OnFailPartial(rq, n) ==
    IF rq.kind = "jobs"
    THEN [rq EXCEPT !.pc = "done", !.status = 200,
                    !.body = [items |-> rq.results, total |-> rq.totalPossible,
                              page |-> rq.page, limit |-> rq.limit],
                    !.failedAt = n, !.failedPhase = rq.phase]
    ELSE [rq EXCEPT !.pc = "done", !.returned = TRUE,
                    !.result = MatResult("Only Sub Task Materials", rq.rows),
                    !.failedAt = n, !.failedPhase = rq.phase]

\* what the caller sees of an error thrown by monday(): the catch of
\* GET /jobs/my answers 500, getMaterialsForJob lets the error propagate
OnFail(rq, n) ==
    IF rq.kind \in {"jobs", "ts"}
    THEN [rq EXCEPT !.pc = "done", !.status = 500, !.body = [error |-> "upstream"],
                    !.failedAt = n, !.failedPhase = rq.phase]
    ELSE [rq EXCEPT !.pc = "done", !.threw = TRUE,
                    !.failedAt = n, !.failedPhase = rq.phase]

\* a slip of the order of the errors test and the cacheSet: the failed call
\* leaves an empty last page under the query's key
FailStoreCachesEmpty(c, key, t) ==
    cacheSet(c, key, [items |-> <<>>, cursor |-> 0], CACHE_TTL_SECONDS, t)

\* the store after a call of monday() that throws: fetch rejects and the
\* errors test throws before cacheSet is reached, and cacheSet throws on
\* missing data before it stores
FailStore(c, key, t) == c

\* monday(): the upstream call fails and monday() throws; the handler's catch
\* answers 500
MondayFail(r, kind) ==
    /\ req[r].pc = "wait"
    /\ cache' = FailStore(cache, MondayKey(req[r].phase, req[r].cursor), now)
    /\ req' = [req EXCEPT ![r] = OnFail(req[r], Cardinality(SentBy(r)))]
    /\ UNCHANGED <<now, ticks, histVars, env, heap, created, born, jobsBoard, up, sent>>

Reqs == {"r1", "r2"}

EnvFull ==
    [linkCol |-> TRUE, emailCol |-> TRUE, timelineCol |-> TRUE,
     titleCol |-> TRUE, notesCol |-> TRUE, statusCol |-> TRUE, supplierCol |-> TRUE,
     subBoard |-> TRUE, parentBoard |-> TRUE]

(***************************************************************************)
(* cacheKeys(): the listing of GET /debug/cache                            *)
(***************************************************************************)
\* a slip of the row: the remaining time is not clamped at 0
remainingTtlRaw(e, t) == e.expires - t

\* ttl_ms of a row
remainingTtl(e, t) == Max(0, e.expires - t)

\* the orders in which _cache.entries() can enumerate the store (the order in
\* which the keys present were first inserted)
EntryOrders(c) ==
    {o \in [1..Cardinality(DOMAIN c) -> DOMAIN c] :
        \A i, j \in DOMAIN o : i # j => o[i] # o[j]}

\* out.sort((a, b) => b.ttl_ms - a.ttl_ms): larger ttl_ms first, equal rows
\* in their order of enumeration
RECURSIVE InsertRow(_, _)
InsertRow(row, sorted) ==
    IF sorted = <<>> THEN <<row>>
    ELSE IF Head(sorted).ttl_ms >= row.ttl_ms
         THEN <<Head(sorted)>> \o InsertRow(row, Tail(sorted))
         ELSE <<row>> \o sorted

RECURSIVE SortRows(_)
SortRows(rows) ==
    IF rows = <<>> THEN <<>>
    ELSE InsertRow(rows[Len(rows)], SortRows(SubSeq(rows, 1, Len(rows) - 1)))

\* rows returned by cacheKeys() at time t when the store enumerates in order
cacheKeys(c, order, t) ==
    SortRows([i \in 1..Len(order) |->
                [key |-> order[i],
                 ttl_ms |-> remainingTtl(c[order[i]], t),
                 size |-> Len(c[order[i]].data)]])

(***************************************************************************)
(* Direct use of the cache: cacheSet / cacheGet calls and the clock        *)
(***************************************************************************)
\* objects a request can hold, and what they hold at the start
Objs == {"o1", "o2"}
InitHeap == [o \in Objs |-> "v1"]

NoSet == [set |-> FALSE]
NoBirths == [k \in {} |-> [oldest |-> 0, took |-> 0]]
NoRet == [op |-> "none"]

InitCache ==
    /\ cache = EmptyCache
    /\ now = 0
    /\ ticks = 0
    /\ lastSet = [k \in Keys |-> NoSet]
    /\ ret = NoRet
    /\ env = EnvFull
    /\ heap = InitHeap
    /\ created = <<>>
    /\ born = NoBirths
    /\ jobsBoard = <<>>
    /\ up = <<>>
    /\ sent = {}
    /\ req = [r \in Reqs |-> IdleReq]

CacheSetCall(k, v, ttl) ==
    /\ cache' = cacheSet(cache, k, v, ttl, now)
    /\ lastSet' = [lastSet EXCEPT ![k] = [set |-> TRUE, v |-> v, ttl |-> ttl, at |-> now]]
    /\ ret' = [op |-> "set", key |-> k, before |-> cache]
    /\ UNCHANGED <<now, ticks, aggVars>>

CacheGetCall(k) ==
    /\ cache' = cacheGetStore(cache, k, now)
    /\ ret' = [op |-> "get", key |-> k, at |-> now, val |-> cacheGet(cache, k, now),
               before |-> cache]
    /\ UNCHANGED <<now, ticks, lastSet, aggVars>>

CacheKeysCall ==
    /\ \E order \in EntryOrders(cache) :
          ret' = [op |-> "keys", at |-> now, rows |-> cacheKeys(cache, order, now),
                  before |-> cache]
    /\ UNCHANGED <<cache, now, ticks, lastSet, aggVars>>

Tick(d) ==
    /\ ticks < MaxTicks
    /\ now' = now + d
    /\ ticks' = ticks + 1
    /\ UNCHANGED <<cache, lastSet, ret, aggVars>>

NextCache ==
    \/ \E k \in Keys, v \in Vals, ttl \in Ttls : CacheSetCall(k, v, ttl)
    \/ \E k \in Keys : CacheGetCall(k)
    \/ CacheKeysCall
    \/ \E d \in TickSteps : Tick(d)

SpecCache == InitCache /\ [][NextCache]_vars

(***************************************************************************)
(* Concurrent GET /jobs/my requests against one process-wide cache         *)
(***************************************************************************)
\* subitems linked to contractor 10 and to contractor 11
Mine(id) == Sub(id, Link(<<"10">>), "", TlNone)
Theirs(id) == Sub(id, Link(<<"11">>), "", TlNone)

\* JOBS_BOARD_ID as two pages
BoardTwoPages ==
    << << Job("J1", << Mine("s1"), Theirs("s2") >>) >>,
       << Job("J2", << Mine("s3"), Mine("s4") >>) >> >>

Arg(email, on, includeWeekends, page, limit) ==
    [email |-> email, on |-> on, includeWeekends |-> includeWeekends,
     page |-> page, limit |-> limit]

MaxPageArg == 2

MaxLimitArg == 2

ArgsConcurrent ==
    {Arg("B@X.IO", "", TRUE, p, MaxLimitArg) : p \in 1..MaxPageArg}

MatArg(jobNumRaw, matScopeStatus) ==
    [jobNumRaw |-> jobNumRaw, matScopeStatus |-> matScopeStatus]

MatArgsConcurrent ==
    {MatArg("2762-5 kitchen", "Only Sub Task Materials"),
     MatArg("2762 kitchen", "Include Main Scope Materials"),
     MatArg("2762-5 kitchen", "No Materials")}

LongStep == CACHE_TTL_SECONDS * MsPerSecond

InitWith(envs, boards) ==
    /\ cache = EmptyCache
    /\ now = 0
    /\ ticks = 0
    /\ lastSet = [k \in Keys |-> NoSet]
    /\ ret = NoRet
    /\ env \in envs
    /\ heap = InitHeap
    /\ created = <<>>
    /\ born = NoBirths
    /\ jobsBoard \in boards
    /\ up = <<>>
    /\ sent = {}
    /\ req = [r \in Reqs |-> IdleReq]

Init == InitWith({EnvFull}, {BoardTwoPages})

Next ==
    \/ \E r \in Reqs, a \in ArgsConcurrent : JobsStart(r, a)
    \/ \E r \in Reqs, a \in MatArgsConcurrent : MatStart(r, a.jobNumRaw, a.matScopeStatus)
    \/ \E r \in Reqs : MondayHit(r)
    \/ \E r \in Reqs : MondayMiss(r)
    \/ \E r \in Reqs : MondayOk(r)
    \/ \E r \in Reqs, kind \in FailKinds : MondayFail(r, kind)
    \/ Tick(LongStep)

Spec == Init /\ [][Next]_vars

(***************************************************************************)
(* One GET /jobs/my request against a cold cache, over a family of boards  *)
(***************************************************************************)
MaxPages == 3

SubId(p, j, k) == "p" \o ToString(p) \o "j" \o ToString(j) \o "s" \o ToString(k)
JobId(p, j) == "p" \o ToString(p) \o "j" \o ToString(j)

\* the shapes a page of JOBS_BOARD_ID takes; p is the page's position
PageKinds == {"empty", "nosubs", "one", "two", "mixed", "twojobs"}
PageOf(kind, p) ==
    CASE kind = "empty" -> <<>>
      [] kind = "nosubs" -> << Job(JobId(p, 1), <<>>) >>
      [] kind = "one" -> << Job(JobId(p, 1), << Mine(SubId(p, 1, 1)) >>) >>
      [] kind = "two" ->
            << Job(JobId(p, 1), << Mine(SubId(p, 1, 1)), Mine(SubId(p, 1, 2)) >>) >>
      [] kind = "mixed" ->
            << Job(JobId(p, 1), << Theirs(SubId(p, 1, 1)), Mine(SubId(p, 1, 2)) >>) >>
      [] kind = "twojobs" ->
            << Job(JobId(p, 1), << Mine(SubId(p, 1, 1)) >>),
               Job(JobId(p, 2), << Mine(SubId(p, 2, 1)) >>) >>

BoardsUpTo(n) ==
    UNION {{[p \in 1..m |-> PageOf(kinds[p], p)] : kinds \in [1..m -> PageKinds]}
           : m \in 1..n}

ArgsScan ==
    {Arg(e, "", TRUE, p, l) :
        e \in {"B@X.IO", " A@x.io ", "c@x.io", "  "},
        p \in 0..MaxPageArg, l \in 0..MaxLimitArg}

InitScan == InitWith({EnvFull}, BoardsUpTo(MaxPages))

NextScan ==
    \/ \E a \in ArgsScan : JobsStart("r1", a)
    \/ MondayMiss("r1")
    \/ MondayOk("r1")
    \/ \E kind \in FailKinds : MondayFail("r1", kind)

SpecScan == InitScan /\ [][NextScan]_vars

(***************************************************************************)
(* One GET /jobs/my request over every kind of child record and every      *)
(* configuration of the subitem columns                                    *)
(***************************************************************************)
\* the default of the limit parameter
DefaultLimit == 50

\* raw values of the contractor link, email and timeline columns of a subitem
LinkValues ==
    {LinkNone, LinkBad, Link(<<"10">>), Link(<<"11">>), Link(<<"11", "10">>)}
EmailTexts == {"", " B@x.io ", "a@x.io"}
TimelineValues ==
    {TlNone, TlBad, Tl("2024-01-05", "2024-01-07"), Tl("2024-01-06", ""),
     Tl("2024-01-07", "2024-01-08")}

\* a page with one job: a subitem of any kind, then one linked to
\* contractor 10 whose timeline covers every date asked for
BoardsMatch ==
    {<< << Job("J1", << Sub("s1", l, e, tl),
                        Sub("s2", Link(<<"10">>), "", Tl("2024-01-05", "2024-01-08"))
                     >>) >> >> :
        l \in LinkValues, e \in EmailTexts, tl \in TimelineValues}

EnvsMatch ==
    {[EnvFull EXCEPT !.linkCol = l, !.emailCol = e, !.timelineCol = t] :
        l \in BOOLEAN, e \in BOOLEAN, t \in BOOLEAN}

OnDates == {"", "2024-01-05", "2024-01-06", "2024-01-07"}

ArgsMatch ==
    {Arg(e, on, w, 1, DefaultLimit) :
        e \in {"B@X.IO", " A@x.io "}, on \in OnDates, w \in BOOLEAN}

InitMatch == InitWith(EnvsMatch, BoardsMatch)

NextMatch ==
    \/ \E a \in ArgsMatch : JobsStart("r1", a)
    \/ MatStart("r1", "2762-5 kitchen", "Only Sub Task Materials")
    \/ MondayMiss("r1")
    \/ MondayOk("r1")

SpecMatch == InitMatch /\ [][NextMatch]_vars

(***************************************************************************)
(* One getMaterialsForJob call over job numbers, scope status texts and     *)
(* configurations of the materials columns and boards                       *)
(***************************************************************************)
JobNumbers ==
    {"", "no numbers", "2762-5 kitchen", "2762 kitchen", "1234 2762-5",
     "2763-1 bath", "9999-9 none", "4000 yard", "3000 plot"}

ScopeStatuses ==
    {"", "Pending", "No Materials", "Only Sub Task Materials",
     "ONLY SUB TASK MATERIALS", "Include Main Scope Materials",
     "no materials - only sub task materials",
     "Only Sub Task Materials - Include Main Scope Materials"}

EnvsMat ==
    {[EnvFull EXCEPT !.titleCol = a, !.notesCol = b, !.statusCol = c,
                     !.supplierCol = d, !.subBoard = e, !.parentBoard = f] :
        a \in BOOLEAN, b \in BOOLEAN, c \in BOOLEAN,
        d \in BOOLEAN, e \in BOOLEAN, f \in BOOLEAN}

InitMat == InitWith(EnvsMat, {BoardTwoPages})

NextMat ==
    \/ \E j \in JobNumbers, st \in ScopeStatuses : MatStart("r1", j, st)
    \/ MondayMiss("r1")
    \/ MondayOk("r1")

SpecMat == InitMat /\ [][NextMat]_vars

(***************************************************************************)
(* Direct calls of the pure helpers, each on every input of a bounded set  *)
(* and each examined on its own, from the state after construction          *)
(***************************************************************************)
\* query strings of GET /jobs/my as the handler normalises them
Identity(a) ==
    [email |-> TrimLower(a.email), onDate |-> a.on,
     includeWeekends |-> a.includeWeekends,
     page |-> pageOf(a.page), limit |-> limitOf(a.limit)]

KeyOf(id) == cacheKey(id.email, id.onDate, id.includeWeekends, id.page, id.limit)

ArgsKey ==
    {Arg(e, on, w, p, MaxLimitArg) :
        e \in {"a@x.io", " A@x.io ", "a@x.io:b"}, on \in {"", "b:", "2024-01-06"},
        w \in BOOLEAN, p \in 1..MaxPageArg}

\* the texts a job-number column holds: three pieces side by side
TokenPieces == {"", "2762-5", "1234", " ", "x", "12", "-7", "2762-55"}
TokenTexts ==
    {a \o b \o c : a \in TokenPieces, b \in TokenPieces, c \in TokenPieces}
        \cup {"2762-5 kitchen", "2762 kitchen", "no numbers"}

\* the titles a timesheet group carries
TitleHeads == {"", " ", "Not ", "To Be "}
TitleCores ==
    {"", "Approved", "APPROVED", "Approvedx", "Approved - Upcoming Payroll",
     "Payroll Processed", "Draft", "To Be Approved"}
TitleTails == {"", " ", "s", " - Payroll Processed", " to be approved"}
GroupTitles ==
    {h \o c \o t : h \in TitleHeads, c \in TitleCores, t \in TitleTails}

CacheKeyCall(a, b) ==
    /\ ret = NoRet
    /\ ret' = [op |-> "cacheKey", a |-> Identity(a), b |-> Identity(b),
               ka |-> KeyOf(Identity(a)), kb |-> KeyOf(Identity(b))]
    /\ UNCHANGED <<cache, now, ticks, lastSet, aggVars>>

SplitCall(text) ==
    /\ ret = NoRet
    /\ ret' = [op |-> "splitJobTokens", arg |-> text, out |-> splitJobTokens(text)]
    /\ UNCHANGED <<cache, now, ticks, lastSet, aggVars>>

StatusCall(title) ==
    /\ ret = NoRet
    /\ ret' = [op |-> "status", arg |-> title, out |-> statusOf(title),
               legacy |-> statusOfLegacy(title)]
    /\ UNCHANGED <<cache, now, ticks, lastSet, aggVars>>

NextCalls ==
    \/ \E a \in ArgsKey, b \in ArgsKey : CacheKeyCall(a, b)
    \/ \E text \in TokenTexts : SplitCall(text)
    \/ \E title \in GroupTitles : StatusCall(title)

SpecCalls == InitCache /\ [][NextCalls]_vars

(***************************************************************************)
(* Claims about the cache                                                  *)
(***************************************************************************)
\* when the last direct call was a cacheGet on a key that was set before
GetAfterSet == ret.op = "get" /\ lastSet[ret.key].set
SetExpiry(k) == lastSet[k].at + lastSet[k].ttl * MsPerSecond

\* C1: cacheSet(k, v, ttl) followed by cacheGet(k) with no time elapsed
\* returns v; a cacheGet(k) later than ttl seconds after the set (no other set
\* on k in between) returns absent.
C1_SetThenGet ==
    GetAfterSet =>
        /\ (ret.at = lastSet[ret.key].at => ret.val = Present(lastSet[ret.key].v))
        /\ (ret.at > SetExpiry(ret.key) => ret.val = Absent)

C1_Witness ==
    /\ GetAfterSet
    /\ ret.at > SetExpiry(ret.key)
    /\ ret.val = Absent

\* C2 (as claimed): a cacheGet returns a value only while now < expiresAt,
\* so a read at the instant now = expiresAt returns absent.
C2_StrictExpiry ==
    (GetAfterSet /\ ret.val.hit) => ret.at < SetExpiry(ret.key)

\* C2 (amended): a cacheGet returns the value exactly while now <= expiresAt:
\* a read at the instant now = expiresAt still returns it, every later read
\* returns absent.
C2_InclusiveExpiry ==
    ret.op = "get" =>
        (ret.val.hit <=> (lastSet[ret.key].set /\ ret.at <= SetExpiry(ret.key)))

C2_Witness ==
    /\ GetAfterSet
    /\ ret.at = SetExpiry(ret.key)
    /\ ret.val = Present(lastSet[ret.key].v)

(***************************************************************************)
(* Claims about traversals and the result cache                            *)
(***************************************************************************)
Failed(r) == req[r].failedAt >= 0
\* the request ran its assignments scan to the end and answered 200
Computed(r) ==
    /\ req[r].pc = "done"
    /\ req[r].status = 200
    /\ ~req[r].fromCache
    /\ req[r].phase = "jobs"

\* C3 (as claimed): a traversal writes no cache entry until it has succeeded
\* as a whole, so a request that failed on a page fetch has written nothing,
\* the per-page entries of monday() included.
C3_NoWriteBeforeSuccess ==
    \A r \in Reqs : Failed(r) => req[r].wrote = {}

\* C4 (as claimed): every cursor sent upstream was returned by the upstream
\* answer to the same traversal's immediately preceding page request, and no
\* cursor token is sent upstream more than once.
C4_CursorsLinkedSingleUse ==
    /\ \A e \in sent : e.cursor # 0 => e.prev = "upstream"
    /\ \A e1, e2 \in sent :
        (e1.cursor # 0 /\ e1.cursor = e2.cursor) => e1 = e2

\* C5: the assignments scan asks for a further page only while the last page
\* carried a cursor and the window is not yet satisfied, and a scan that ran to
\* its end did so because the last page had no cursor or because
\* collected = limit and totalPossible >= offset + limit.
WindowSatisfied(rq) ==
    rq.collected = rq.limit /\ rq.totalPossible >= offsetOf(rq) + rq.limit

C5_ScanEndsExactlyWhen ==
    \A r \in Reqs :
        /\ (req[r].phase = "jobs" /\ req[r].pc \in {"call", "wait"} /\ req[r].gotPages > 0)
            => (req[r].lastCursor # 0 /\ ~WindowSatisfied(req[r]))
        /\ Computed(r) =>
            /\ req[r].lastCursor = 0 \/ WindowSatisfied(req[r])
            /\ req[r].pages = req[r].gotPages

C5_Witness ==
    \E r \in Reqs :
        /\ Computed(r)
        /\ req[r].lastCursor # 0
        /\ WindowSatisfied(req[r])

\* the subitems of the whole board in traversal order
RECURSIVE FlattenBoard(_)
FlattenBoard(board) ==
    IF board = <<>> THEN <<>>
    ELSE Flatten(Head(board)) \o FlattenBoard(Tail(board))

IsIncluded(r, c) == Included(c.s, req[r])
\* the filtered match sequence of request r over the whole collection
AllMatches(r) == SelectSeq(FlattenBoard(jobsBoard), LAMBDA c : IsIncluded(r, c))
EveryChildMatches(r) == Len(AllMatches(r)) = Len(FlattenBoard(jobsBoard))

\* number of subitems on the first n pages
SubsOnPages(n) == Len(FlattenBoard(SubSeq(jobsBoard, 1, n)))
\* smallest number of leading pages holding k subitems, or all pages
NeededPages(k) ==
    IF SubsOnPages(Len(jobsBoard)) < k THEN Len(jobsBoard)
    ELSE CHOOSE n \in 1..Len(jobsBoard) :
            /\ SubsOnPages(n) >= k
            /\ \A m \in 1..(n - 1) : SubsOnPages(m) < k

\* C6: over a stream in which every child matches, the scan requests exactly
\* the smallest number of leading pages that hold offset + limit children (all
\* pages if there are fewer), and none after it.
C6_EarlyTerminationBound ==
    \A r \in Reqs :
        (Computed(r) /\ EveryChildMatches(r)) =>
            req[r].pages = NeededPages(offsetOf(req[r]) + req[r].limit)

C6_Witness ==
    \E r \in Reqs :
        /\ Computed(r) /\ EveryChildMatches(r)
        /\ req[r].page > 1
        /\ req[r].pages > 1
        /\ req[r].pages < Len(jobsBoard)

\* C7 (as claimed): total is the number of all matching children of the whole
\* collection, whatever window was requested.
C7_TotalCountsAllMatches ==
    \A r \in Reqs : Computed(r) => req[r].body.total = Len(AllMatches(r))

\* C8: items are the matches at positions offset+1 .. offset+limit of the
\* filtered match sequence in traversal order, at most limit of them.
Window(r) ==
    SubSeq(AllMatches(r), offsetOf(req[r]) + 1,
           Min(offsetOf(req[r]) + req[r].limit, Len(AllMatches(r))))

C8_ItemsAreTheWindow ==
    \A r \in Reqs :
        Computed(r) =>
            /\ Len(req[r].body.items) <= req[r].limit
            /\ Len(req[r].body.items) = Len(Window(r))
            /\ \A i \in 1..Len(Window(r)) :
                /\ req[r].body.items[i].subitemId = Window(r)[i].s.id
                /\ req[r].body.items[i].parentJobId = Window(r)[i].job

C8_Witness ==
    \E r \in Reqs :
        /\ Computed(r)
        /\ req[r].page > 1
        /\ Len(req[r].body.items) = 2
        /\ Len(AllMatches(r)) < Len(FlattenBoard(jobsBoard))
        /\ req[r].body.items[1].parentJobId # req[r].body.items[2].parentJobId

\* C9: once a page fetch of a /jobs/my or getMaterialsForJob traversal has
\* failed, the traversal sends no further page request, the caller gets an
\* error (HTTP 500, or a thrown error), no collected item is returned and the
\* request has stored nothing under its result key.
C9_FailureAbortsTraversal ==
    \A r \in Reqs :
        Failed(r) =>
            /\ req[r].pc = "done"
            /\ Cardinality(SentBy(r)) = req[r].failedAt
            /\ req[r].kind = "jobs" =>
                /\ req[r].status = 500
                /\ req[r].body = [error |-> "upstream"]
                /\ req[r].key \notin req[r].wrote
            /\ req[r].kind = "mat" =>
                /\ req[r].threw
                /\ ~req[r].returned
                /\ req[r].result = NullResult

C9_Witness ==
    \E r1, r2 \in Reqs :
        /\ Failed(r1) /\ req[r1].kind = "jobs"
        /\ req[r1].failedPhase = "jobs" /\ req[r1].results # <<>>
        /\ Failed(r2) /\ req[r2].kind = "mat"
        /\ req[r2].rows # <<>>

\* C10: a request that finds an unexpired entry under its result key answers
\* with that entry and sends nothing upstream; every request that reaches a
\* page request has consulted the result cache first.
C10_ResultCacheFirst ==
    \A r \in Reqs :
        /\ req[r].hadEntry =>
            /\ req[r].pc = "done" /\ req[r].status = 200
            /\ req[r].body = req[r].hadData
            /\ SentBy(r) = {}
            /\ req[r].pages = 0 /\ req[r].phase = "none"
        /\ (req[r].kind = "jobs" /\ req[r].phase # "none") => req[r].consulted

C10_Witness ==
    \E r \in Reqs :
        /\ req[r].hadEntry /\ req[r].fromCache
        /\ req[r].body.total > 0
        /\ now > 0

(***************************************************************************)
(* Claims about the result cache key                                       *)
(***************************************************************************)
\* C11: two /jobs/my requests that differ in any of (normalized email,
\* onDate, includeWeekends, page, limit) never get the same result cache key.
C11_KeyInjective ==
    ret.op = "cacheKey" => (ret.a # ret.b => ret.ka # ret.kb)

(***************************************************************************)
(* Claims about the identity scan of GET /jobs/my                          *)
(***************************************************************************)
\* the records of the identities collection in traversal order, each with
\* the page it is on
RECURSIVE RecordsFrom(_)
RecordsFrom(p) ==
    IF p > Len(ContractorsBoard) THEN <<>>
    ELSE [i \in 1..Len(ContractorsBoard[p]) |->
            [page |-> p, rec |-> ContractorsBoard[p][i]]] \o RecordsFrom(p + 1)
ContractorRecords == RecordsFrom(1)

\* the email field of each record, trimmed and lower-cased
RecordEmails ==
    [i \in 1..Len(ContractorRecords) |-> TrimLower(ContractorRecords[i].rec.email)]
MatchingRecords(email) ==
    {i \in 1..Len(ContractorRecords) : RecordEmails[i] = email}
FirstRecord(email) ==
    ContractorRecords[CHOOSE i \in MatchingRecords(email) :
                          \A j \in MatchingRecords(email) : i <= j]

\* the request has left the identity scan without a failure
IdentityScanDone(r) ==
    /\ req[r].kind = "jobs"
    /\ ~req[r].fromCache
    /\ req[r].phase = "jobs" \/ (req[r].pc = "done" /\ req[r].status = 200)
ContractorRequests(r) == {e \in SentBy(r) : e.q = "contractors"}
JobsRequests(r) == {e \in SentBy(r) : e.q = "jobs"}

\* C12: the identity scan selects the first record, in traversal order over
\* all pages, whose trimmed lower-cased email equals the requested email; of
\* several records with the same email the earliest is used.
C12_FirstMatchWins ==
    \A r \in Reqs :
        IdentityScanDone(r) =>
            IF MatchingRecords(req[r].email) = {}
            THEN req[r].contractorId = ""
            ELSE req[r].contractorId = FirstRecord(req[r].email).rec.id

C12_Witness ==
    \E r \in Reqs :
        /\ IdentityScanDone(r)
        /\ Cardinality(MatchingRecords(req[r].email)) > 1
        /\ FirstRecord(req[r].email).page > 1
        /\ req[r].contractorId = "11"

\* C13 as stated: the identity scan requests every page of the identities
\* collection, also after a record with the matching email has been found.
C13_FullIdentityTraversal ==
    \A r \in Reqs :
        IdentityScanDone(r) =>
            Cardinality(ContractorRequests(r)) = Len(ContractorsBoard)

\* C13 amended: the identity scan stops with the page that holds the first
\* matching record; it runs to the page with absent cursor only when no
\* record matches.
C13_ScanStopsAtMatch ==
    \A r \in Reqs :
        IdentityScanDone(r) =>
            Cardinality(ContractorRequests(r)) =
                IF MatchingRecords(req[r].email) = {} THEN Len(ContractorsBoard)
                ELSE FirstRecord(req[r].email).page

C13_Witness ==
    \E r \in Reqs :
        /\ IdentityScanDone(r)
        /\ MatchingRecords(req[r].email) # {}
        /\ FirstRecord(req[r].email).page = 2
        /\ Cardinality(ContractorRequests(r)) = 2
        /\ Len(ContractorsBoard) > 2

\* C14: when no record of the identities collection matches the email the
\* request sends no page request for the assignments collection and answers
\* 200 with items = [] and total = 0.
C14_NoIdentityEmptyResult ==
    \A r \in Reqs :
        (req[r].kind = "jobs" /\ req[r].email # ""
            /\ MatchingRecords(req[r].email) = {}) =>
            /\ JobsRequests(r) = {}
            /\ IdentityScanDone(r) =>
                /\ req[r].pc = "done"
                /\ req[r].status = 200
                /\ req[r].body = [items |-> <<>>, total |-> 0,
                                  page |-> req[r].page, limit |-> req[r].limit]

C14_Witness ==
    \E r \in Reqs :
        /\ IdentityScanDone(r)
        /\ MatchingRecords(req[r].email) = {}
        /\ Cardinality(ContractorRequests(r)) = Len(ContractorsBoard)
        /\ req[r].status = 200
        /\ req[r].body.total = 0

(***************************************************************************)
(* Claims about the match rule and the date filters of GET /jobs/my        *)
(***************************************************************************)
\* the child records of the assignments collection in traversal order
Children == FlattenBoard(jobsBoard)
ChildById(id) == (CHOOSE i \in 1..Len(Children) : Children[i].s.id = id)
ItemIds(r) == [i \in 1..Len(req[r].body.items) |-> req[r].body.items[i].subitemId]
IdsOf(cs) == [i \in 1..Len(cs) |-> cs[i].s.id]

\* the fields of a child are the values of the configured columns
LinkHolds(s, id) ==
    /\ env.linkCol
    /\ s.link.kind = "ids"
    /\ \E i \in 1..Len(s.link.ids) : s.link.ids[i] = id
EmailHolds(s, email) == env.emailCol /\ TrimLower(s.email) = email
IsMatch(r, s) ==
    LinkHolds(s, req[r].contractorId) \/ EmailHolds(s, req[r].email)
MatchingChildren(r) == SelectSeq(Children, LAMBDA c : IsMatch(r, c.s))

\* C15: a child is a match iff its relation list contains the identity's id
\* or its email text, trimmed and lower-cased, equals the identity's email; a
\* child matching by relation matches whatever its email text is, and a child
\* for which neither holds is neither in items nor counted in total.
C15_MatchRule ==
    \A r \in Reqs :
        Computed(r) =>
            /\ \A i \in 1..Len(req[r].body.items) :
                    IsMatch(r, Children[ChildById(req[r].body.items[i].subitemId)].s)
            /\ req[r].body.total <= Len(MatchingChildren(r))
            /\ req[r].onDate = "" =>
                    /\ ItemIds(r) = IdsOf(MatchingChildren(r))
                    /\ req[r].body.total = Len(MatchingChildren(r))

C15_Witness ==
    \E r \in Reqs :
        /\ Computed(r)
        /\ req[r].onDate = ""
        /\ env.emailCol
        /\ LinkHolds(Children[1].s, req[r].contractorId)
        /\ Len(Children[1].s.link.ids) = 2
        /\ Children[1].s.email = "a@x.io"
        /\ req[r].email = "b@x.io"
        /\ req[r].body.items[1].subitemId = Children[1].s.id

\* C16: with a relation column configured, a child whose relation list does
\* not contain the identity's id is not matched through its email text.
C16_FallbackOnlyWithoutLink ==
    \A r \in Reqs :
        (Computed(r) /\ env.linkCol) =>
            \A i \in 1..Len(req[r].body.items) :
                LinkHolds(Children[ChildById(req[r].body.items[i].subitemId)].s,
                          req[r].contractorId)

\* calendar of the dates in use: day number and the weekend days
DayNo(d) ==
    CASE d = "2024-01-05" -> 5
      [] d = "2024-01-06" -> 6
      [] d = "2024-01-07" -> 7
      [] d = "2024-01-08" -> 8
WeekendDates == {"2024-01-06", "2024-01-07"}

HasTimeline(s) == env.timelineCol /\ s.tl.kind = "range"
InRange(s, d) ==
    /\ HasTimeline(s)
    /\ DayNo(s.tl.from) <= DayNo(d)
    /\ DayNo(d) <= DayNo(IF s.tl.to = "" THEN s.tl.from ELSE s.tl.to)
MatchingInRange(r) ==
    SelectSeq(Children, LAMBDA c : IsMatch(r, c.s) /\ InRange(c.s, req[r].onDate))
WeekendDiscards(r) ==
    ~req[r].includeWeekends /\ req[r].onDate \in WeekendDates

C18_WeekendFilter ==
    \A r \in Reqs :
        Computed(r) =>
            /\ WeekendDiscards(r) =>
                    /\ req[r].body.items = <<>>
                    /\ req[r].body.total = 0
            /\ (req[r].includeWeekends /\ req[r].onDate # "") =>
                    /\ ItemIds(r) = IdsOf(MatchingInRange(r))
                    /\ req[r].body.total = Len(MatchingInRange(r))

C18_Witness ==
    \E r \in Reqs :
        /\ Computed(r)
        /\ WeekendDiscards(r)
        /\ req[r].onDate = "2024-01-06"
        /\ Len(MatchingInRange(r)) = 2
        /\ req[r].body.items = <<>>

(***************************************************************************)
(* Claims about splitJobTokens and the timesheet status                    *)
(***************************************************************************)
\* a text of the form dddd-d
IsSubForm(x) ==
    /\ Len(x) = 6
    /\ \A k \in {1, 2, 3, 4, 6} : At(x, k) \in DigitSet
    /\ At(x, 5) = "-"
SubOccurrences(t) == {i \in 1..Len(t) : SubTokenAt(t, i)}
BareOccurrences(t) == {i \in 1..Len(t) : MainTokenAt(t, i)}
SplitOf(text, sub, main) ==
    ret.arg = text => ret.out = [subToken |-> sub, mainToken |-> main]

\* C19: splitJobTokens returns a subToken that is empty or of the form
\* dddd-d; with a non-empty subToken mainToken is the part of subToken before
\* the dash, also when another bare 4-digit number stands earlier in the text;
\* with no dddd-d pattern in the text mainToken is the first bare 4-digit
\* number or empty.
C19_SplitJobTokens ==
    ret.op = "splitJobTokens" =>
        LET t == ret.arg
            sub == ret.out.subToken
            main == ret.out.mainToken
        IN  /\ sub = "" \/ IsSubForm(sub)
            /\ sub # "" => main = SubSeq(sub, 1, 4)
            /\ sub = "" <=> SubOccurrences(t) = {}
            /\ sub # "" => \E i \in SubOccurrences(t) :
                                /\ sub = SubSeq(t, i, i + 5)
                                /\ \A j \in SubOccurrences(t) : i <= j
            /\ sub = "" =>
                IF BareOccurrences(t) = {} THEN main = ""
                ELSE \E i \in BareOccurrences(t) :
                        /\ main = SubSeq(t, i, i + 3)
                        /\ \A j \in BareOccurrences(t) : i <= j
            /\ SplitOf("2762-5 kitchen", "2762-5", "2762")
            /\ SplitOf("2762 kitchen", "", "2762")
            /\ SplitOf("no numbers", "", "")

C19_Witness ==
    /\ ret.op = "splitJobTokens"
    /\ ret.arg = "1234 2762-5"
    /\ ret.out = [subToken |-> "2762-5", mainToken |-> "2762"]

StatusFor(title, status) == ret.arg = title => ret.out = status

\* C20: on the trimmed lower-cased group label, a label containing
\* "to be approved" is pending even if an approved rule also applies;
\* otherwise a label containing "payroll processed" or
\* "approved - upcoming payroll", or starting with the word "approved", is
\* approved; every other label is pending.  The result is pending or approved.
C20_StatusPrecedence ==
    ret.op = "status" =>
        LET g == TrimLower(ret.arg)
            approvedWord ==
                /\ Len(g) >= 8
                /\ SubSeq(g, 1, 8) = "approved"
                /\ Len(g) = 8 \/ At(g, 9) \notin WordSet
        IN  /\ ret.out \in {"pending", "approved"}
            /\ includes(g, "to be approved") => ret.out = "pending"
            /\ ~includes(g, "to be approved") =>
                (ret.out = "approved" <=>
                    \/ includes(g, "payroll processed")
                    \/ includes(g, "approved - upcoming payroll")
                    \/ approvedWord)
            /\ StatusFor("To Be Approved", "pending")
            /\ StatusFor("Approved - Upcoming Payroll", "approved")
            /\ StatusFor("Payroll Processed", "approved")
            /\ StatusFor("Draft", "pending")

C20_Witness ==
    /\ ret.op = "status"
    /\ ret.arg = "To Be Approved - Payroll Processed"
    /\ ret.out = "pending"

(***************************************************************************)
(* Claims about getMaterialsForJob                                         *)
(***************************************************************************)
ContainsCI(text, phrase) == includes(toLowerCase(text), phrase)
MatCalled(r) == req[r].kind = "mat"
\* the call returned absent without a request and without an error
AbsentWithoutRequest(r) ==
    /\ req[r].pc = "done"
    /\ req[r].returned
    /\ ~req[r].threw
    /\ req[r].result = NullResult
    /\ SentBy(r) = {}
ColumnsConfigured == env.titleCol /\ env.notesCol /\ env.statusCol

\* C21: getMaterialsForJob returns absent without any upstream request when
\* the scope status text is empty or contains "no materials" in any letter
\* case, also when the text contains a mode phrase as well.
C21_OptOutFirst ==
    \A r \in Reqs :
        (MatCalled(r) /\ (req[r].matScopeStatus = ""
                            \/ ContainsCI(req[r].matScopeStatus, "no materials"))) =>
            AbsentWithoutRequest(r)

C21_Witness ==
    \E r \in Reqs :
        /\ MatCalled(r)
        /\ req[r].matScopeStatus = "no materials - only sub task materials"
        /\ req[r].subToken = "2762-5"
        /\ ColumnsConfigured /\ env.subBoard
        /\ AbsentWithoutRequest(r)

ModeAText == "only sub task materials"
ModeBText == "include main scope materials"
OptsOut(r) ==
    req[r].matScopeStatus = "" \/ ContainsCI(req[r].matScopeStatus, "no materials")
HasResult(r) == req[r].returned /\ req[r].result # NullResult
BoardsAsked(r) == {e.q : e \in SentBy(r)}

\* C22: a getMaterialsForJob call scans at most one of the two materials
\* collections and its result carries exactly one mode, the one its status
\* text names; a status text with neither mode phrase yields absent with no
\* upstream request and no error.
C22_ModesExclusive ==
    \A r \in Reqs :
        MatCalled(r) =>
            /\ BoardsAsked(r) \in {{}, {"subMaterials"}, {"materials"}}
            /\ HasResult(r) =>
                \/ /\ req[r].result.mode = "Only Sub Task Materials"
                   /\ ContainsCI(req[r].matScopeStatus, ModeAText)
                   /\ BoardsAsked(r) = {"subMaterials"}
                \/ /\ req[r].result.mode = "Include Main Scope Materials"
                   /\ ContainsCI(req[r].matScopeStatus, ModeBText)
                   /\ BoardsAsked(r) = {"materials"}
            /\ (~ContainsCI(req[r].matScopeStatus, ModeAText)
                    /\ ~ContainsCI(req[r].matScopeStatus, ModeBText)) =>
                AbsentWithoutRequest(r)

C22_Witness ==
    \E r \in Reqs :
        /\ MatCalled(r)
        /\ ContainsCI(req[r].matScopeStatus, ModeAText)
        /\ ContainsCI(req[r].matScopeStatus, ModeBText)
        /\ HasResult(r)
        /\ req[r].result.mode = "Only Sub Task Materials"
        /\ BoardsAsked(r) = {"subMaterials"}

\* the records of a collection over all its pages, in traversal order, each
\* with the page it is on
RECURSIVE PagedFrom(_, _)
PagedFrom(board, p) ==
    IF p > Len(board) THEN <<>>
    ELSE [i \in 1..Len(board[p]) |-> [page |-> p, it |-> board[p][i]]]
            \o PagedFrom(board, p + 1)
SubMaterialRecords == PagedFrom(SubMaterialsBoard, 1)
ParentRecords == PagedFrom(MaterialsBoard, 1)
HasPrefix(name, token) ==
    Len(name) >= Len(token) /\ SubSeq(name, 1, Len(token)) = token
RowIds(rows) == [i \in 1..Len(rows) |-> rows[i].id]
RecordIds(recs) == [i \in 1..Len(recs) |-> recs[i].it.id]

ModeA(r) ==
    /\ MatCalled(r) /\ ~OptsOut(r) /\ ColumnsConfigured
    /\ ContainsCI(req[r].matScopeStatus, ModeAText)
ExpectedLinesA(r) ==
    RecordIds(SelectSeq(SubMaterialRecords,
                        LAMBDA c : HasPrefix(c.it.name, req[r].subToken)))
Ended(r) == req[r].pc = "done"

\* C23: in Mode A with a non-empty subToken the result lines are exactly
\* the records, over all pages of the sub-materials collection, whose name
\* starts with subToken, in traversal order; with an empty subToken the
\* result is absent and no page is fetched.
C23_ModeALines ==
    \A r \in Reqs :
        ModeA(r) =>
            /\ req[r].subToken = "" => AbsentWithoutRequest(r)
            /\ (req[r].subToken # "" /\ env.subBoard /\ Ended(r)) =>
                /\ RowIds(req[r].rows) = ExpectedLinesA(r)
                /\ Cardinality(SentBy(r)) = Len(SubMaterialsBoard)
                /\ req[r].returned => (HasResult(r) <=> req[r].rows # <<>>)
                /\ req[r].subToken = "2762-5" =>
                        RowIds(req[r].rows) = <<"m1", "m4", "m5">>

C23_Witness ==
    \E r \in Reqs :
        /\ ModeA(r) /\ Ended(r)
        /\ req[r].subToken = "2762-5"
        /\ HasResult(r)
        /\ Len(req[r].rows) = 3
        /\ Len(SubMaterialRecords) > 3

ModeB(r) ==
    /\ MatCalled(r) /\ ~OptsOut(r) /\ ColumnsConfigured
    /\ ~ContainsCI(req[r].matScopeStatus, ModeAText)
    /\ ContainsCI(req[r].matScopeStatus, ModeBText)
ParentCandidates(r) ==
    {i \in 1..Len(ParentRecords) : HasPrefix(ParentRecords[i].it.name, req[r].mainToken)}
FirstParent(r) ==
    ParentRecords[CHOOSE i \in ParentCandidates(r) :
                      \A j \in ParentCandidates(r) : i <= j]
ExpectedLinesB(r) ==
    IF ParentCandidates(r) = {} \/ ~FirstParent(r).it.hasSubitems THEN <<>>
    ELSE LET kept == SelectSeq(FirstParent(r).it.subitems,
                        LAMBDA si : ~HasPrefix(si.name, req[r].mainToken \o "-"))
         IN  [i \in 1..Len(kept) |-> kept[i].id]

\* C24: in Mode B with a non-empty mainToken the parent used is the first
\* record in traversal order whose name starts with mainToken, no page is
\* requested after the page of that parent, and the result lines are that
\* parent's children whose name does not start with mainToken followed by
\* "-", in child order; with an empty mainToken the result is absent and no
\* page is fetched.
C24_ModeBLines ==
    \A r \in Reqs :
        ModeB(r) =>
            /\ req[r].mainToken = "" => AbsentWithoutRequest(r)
            /\ (req[r].mainToken # "" /\ env.parentBoard /\ Ended(r)) =>
                /\ RowIds(req[r].rows) = ExpectedLinesB(r)
                /\ Cardinality(SentBy(r)) =
                        IF ParentCandidates(r) = {} THEN Len(MaterialsBoard)
                        ELSE FirstParent(r).page
                /\ req[r].returned => (HasResult(r) <=> req[r].rows # <<>>)
                /\ req[r].mainToken = "2762" => RowIds(req[r].rows) = <<"y2", "y3">>

C24_Witness ==
    \E r \in Reqs :
        /\ ModeB(r) /\ Ended(r)
        /\ req[r].mainToken = "2762"
        /\ Cardinality(ParentCandidates(r)) > 1
        /\ FirstParent(r).page < Len(MaterialsBoard)
        /\ HasResult(r)
        /\ Len(req[r].rows) = 2

\* every materials line of the two collections, and the status a line has:
\* the trimmed text of its status column, "Uncategorised" when that is blank
RECURSIVE ChildLines(_)
ChildLines(i) ==
    IF i > Len(ParentRecords) THEN <<>>
    ELSE ParentRecords[i].it.subitems \o ChildLines(i + 1)
AllLines ==
    [i \in 1..Len(SubMaterialRecords) |-> SubMaterialRecords[i].it] \o ChildLines(1)
LineById(id) == AllLines[CHOOSE i \in 1..Len(AllLines) : AllLines[i].id = id]
LineStatus(id) ==
    IF trim(LineById(id).status) = "" THEN "Uncategorised"
    ELSE trim(LineById(id).status)
GroupsHolding(g, row) ==
    {k \in DOMAIN g : \E j \in 1..Len(g[k]) : g[k][j] = row}

\* C25: byStatus is a partition of the resolved lines: every line is in
\* exactly one group, the group's key is the line's status ("Uncategorised"
\* for a blank status), no group is empty, and a group keeps the traversal
\* order of its lines.
C25_ByStatusPartition ==
    \A r \in Reqs :
        (MatCalled(r) /\ Ended(r) /\ req[r].failedAt < 0 /\ req[r].rows # <<>>) =>
            /\ HasResult(r)
            /\ LET g == req[r].result.byStatus
                   rows == req[r].rows
               IN  /\ \A i \in 1..Len(rows) :
                        GroupsHolding(g, rows[i]) = {LineStatus(rows[i].id)}
                   /\ \A k \in DOMAIN g :
                        /\ g[k] # <<>>
                        /\ g[k] = SelectSeq(rows, LAMBDA row : LineStatus(row.id) = k)

\* C26: with the title, notes or status column id not configured,
\* getMaterialsForJob returns absent for every job number and status text,
\* raises no error and sends no upstream request.
C26_ConfigGuard ==
    \A r \in Reqs :
        (MatCalled(r) /\ ~ColumnsConfigured) => AbsentWithoutRequest(r)

C26_Witness ==
    \E r \in Reqs :
        /\ MatCalled(r)
        /\ env.titleCol /\ env.notesCol /\ ~env.statusCol
        /\ env.subBoard
        /\ req[r].subToken = "2762-5"
        /\ req[r].matScopeStatus = "Only Sub Task Materials"
        /\ AbsentWithoutRequest(r)

(***************************************************************************)
(* Claims about malformed field values                                     *)
(***************************************************************************)
InItems(r, id) ==
    \E i \in 1..Len(req[r].body.items) : req[r].body.items[i].subitemId = id
ItemOf(r, id) ==
    req[r].body.items[CHOOSE i \in 1..Len(req[r].body.items) :
                          req[r].body.items[i].subitemId = id]
RowOf(r, id) ==
    req[r].rows[CHOOSE i \in 1..Len(req[r].rows) : req[r].rows[i].id = id]
FirstChild == Children[1].s
BadLink == env.linkCol /\ FirstChild.link = LinkBad
BadTimeline == env.timelineCol /\ FirstChild.tl = TlBad

\* C27: a relation or timeline raw value that fails to parse is treated as
\* an empty field (no linked ids, empty start and end date): the request does
\* not fail, the scan goes on, and well-formed children (lines) after the
\* malformed one are still matched and returned.
C27_MalformedFieldIsEmpty ==
    \A r \in Reqs :
        /\ (req[r].kind = "jobs" /\ Ended(r)) => req[r].status = 200
        /\ (Computed(r) /\ BadLink /\ InItems(r, FirstChild.id)) =>
                EmailHolds(FirstChild, req[r].email)
        /\ (Computed(r) /\ BadTimeline) =>
                IF req[r].onDate # "" THEN ~InItems(r, FirstChild.id)
                ELSE InItems(r, FirstChild.id) =>
                        ItemOf(r, FirstChild.id).timeline =
                            [startDate |-> "", endDate |-> ""]
        /\ (Computed(r) /\ (BadLink \/ BadTimeline)
                /\ req[r].contractorId = "10" /\ env.linkCol
                /\ (req[r].onDate = "" \/ env.timelineCol)
                /\ ~WeekendDiscards(r)) =>
                InItems(r, "s2")
        /\ (MatCalled(r) /\ Ended(r)) =>
                /\ ~req[r].threw
                /\ RowIds(req[r].rows) = <<"m1", "m4", "m5">>
                /\ RowOf(r, "m4").supplierIds = <<>>
                /\ RowOf(r, "m4").supplier = (IF env.supplierCol THEN "Bolt" ELSE "")

C27_Witness ==
    \E r \in Reqs :
        /\ Computed(r)
        /\ BadLink /\ BadTimeline
        /\ req[r].onDate = ""
        /\ req[r].contractorId = "10"
        /\ ItemIds(r) = <<"s1", "s2">>
        /\ ItemOf(r, "s1").timeline = [startDate |-> "", endDate |-> ""]

(***************************************************************************)
(* Claims about the effect of cacheSet and cacheGet on the store           *)
(***************************************************************************)
\* the entry the most recent cacheSet call on k stored
LastSetEntry(k) == [data |-> lastSet[k].v, expires |-> SetExpiry(k)]

\* C28: after cacheSet(k, v2, ttl2) the store holds for k the value v2 with
\* expiry now + ttl2, whatever entry was there before (also one with a later
\* expiry), and the entries of all other keys are unchanged.
C28_SetOverwrites ==
    ret.op = "set" =>
        LET k == ret.key IN
        /\ DOMAIN cache = (DOMAIN ret.before) \cup {k}
        /\ cache[k] = LastSetEntry(k)
        /\ \A j \in (DOMAIN ret.before) \ {k} : cache[j] = ret.before[j]

C28_Witness ==
    /\ ret.op = "set"
    /\ ret.key \in DOMAIN ret.before
    /\ ret.before[ret.key].expires > cache[ret.key].expires
    /\ ret.before[ret.key].data # cache[ret.key].data
    /\ \E j \in DOMAIN cache : j # ret.key

\* C29: a cacheGet on an expired key removes that key's entry and returns
\* absent, leaving every other entry unchanged; a cacheGet on an unexpired or
\* missing key changes nothing.
C29_GetEvictsOnlyExpired ==
    ret.op = "get" =>
        LET k == ret.key
            b == ret.before
        IN  IF k \in DOMAIN b /\ ret.at > b[k].expires
            THEN /\ ret.val = Absent
                 /\ DOMAIN cache = (DOMAIN b) \ {k}
                 /\ \A j \in DOMAIN cache : cache[j] = b[j]
            ELSE cache = b

C29_Witness ==
    /\ ret.op = "get"
    /\ ret.key \in DOMAIN ret.before
    /\ ret.key \notin DOMAIN cache
    /\ ret.val = Absent
    /\ \E j \in DOMAIN cache : cache[j] = ret.before[j]

\* C30: under any interleaving of cacheGet and cacheSet calls on a key, the
\* entry of the key is always the complete value and expiry of one cacheSet
\* call, never a mixture of two, and it is that of the cacheSet executed last.
C30_LastWriteWins ==
    \A k \in DOMAIN cache :
        /\ lastSet[k].set
        /\ cache[k] = LastSetEntry(k)
        /\ cache[k].data \in Vals

C30_Witness ==
    /\ ret.op = "set"
    /\ now > 0
    /\ ret.key \in DOMAIN ret.before
    /\ ret.before[ret.key].data = "v1"
    /\ cache[ret.key] = [data |-> "v2", expires |-> now + MsPerSecond]
    /\ ret.before[ret.key].expires > cache[ret.key].expires

(***************************************************************************)
(* Claims about failures, listing, sharing and mutations                   *)
(***************************************************************************)
\* the answer to a page request of a traversal that runs alone: the cursor is
\* the number of the page to read
SoloData(q, cursor) ==
    LET i == IF cursor = 0 THEN 1 ELSE cursor
    IN  [items |-> Board(q)[i], cursor |-> IF i < Len(Board(q)) THEN i + 1 ELSE 0]

\* the traversal of a request run alone against a cold cache, to its end
RECURSIVE SoloRun(_)
SoloRun(rq) ==
    IF rq.pc = "done" THEN rq
    ELSE SoloRun(AfterPage(rq, SoloData(rq.phase, rq.cursor), EmptyCache, 0).rq)

\* the request as it stood when its traversal began
SoloStart(r) ==
    IF req[r].kind = "jobs"
    THEN [IdleReq EXCEPT !.kind = "jobs", !.email = req[r].email,
                         !.onDate = req[r].onDate,
                         !.includeWeekends = req[r].includeWeekends,
                         !.page = req[r].page, !.limit = req[r].limit,
                         !.key = req[r].key, !.pc = "call", !.phase = "contractors"]
    ELSE [IdleReq EXCEPT !.kind = "mat", !.subToken = req[r].subToken,
                         !.mainToken = req[r].mainToken,
                         !.jobNumRaw = req[r].jobNumRaw,
                         !.matScopeStatus = req[r].matScopeStatus,
                         !.pc = "call", !.phase = req[r].phase]

SameResponse(a, b) ==
    /\ a.status = b.status /\ a.body = b.body
    /\ a.returned = b.returned /\ a.result = b.result /\ a.threw = b.threw

\* the request has ended without a failed fetch of its own, after a traversal
\* or an answer from the result cache
Completed(r) ==
    /\ req[r].pc = "done"
    /\ ~Failed(r)
    /\ req[r].fromCache \/ req[r].phase # "none"

\* C31: when a page fetch of one request has failed, every other request that
\* completes answers what it would answer running alone against a cold cache:
\* the failure leaves nothing behind that changes another request's response.
C31_FailureIsolated ==
    \A f, r \in Reqs :
        (f # r /\ Failed(f) /\ Completed(r)) =>
            SameResponse(req[r], SoloRun(SoloStart(r)))

\* a request has failed after it stored a page, and the other request, which
\* read that page from the cache, has completed with items
C31_Witness ==
    \E f, r \in Reqs :
        /\ f # r /\ Failed(f) /\ Completed(r)
        /\ req[f].kind = "jobs" /\ req[r].kind = "jobs"
        /\ req[r].status = 200 /\ ~req[r].fromCache
        /\ req[r].body.total > 0
        /\ MondayKey("contractors", 0) \in req[f].wrote
        /\ MondayKey("contractors", 0) \notin req[r].wrote

(***************************************************************************)
(* Progress of the traversals                                              *)
(***************************************************************************)
\* The event loop runs every handler step that is ready: the cache lookup of
\* monday() and the fetch it issues on a miss. Whether and when the upstream
\* answers (MondayOk, MondayFail) is not in the server's hands: the fetch of
\* monday() is issued without signal or timeout option, so nothing in the
\* process settles the awaited promise when the upstream stays silent.
SpecLive ==
    /\ Init
    /\ [][Next]_vars
    /\ \A r \in Reqs : WF_vars(MondayHit(r) \/ MondayMiss(r))

\* C32 (as claimed): every aggregation request eventually completes with a
\* result or an error, even if the upstream never answers a page request:
\* a request that is waiting for a page is eventually done.
C32_EveryRequestCompletes ==
    \A r \in Reqs : (req[r].pc = "wait") ~> (req[r].pc = "done")

(***************************************************************************)
(* Claims about the listing and about what leaves the store                *)
(***************************************************************************)
Listed == ret.op = "keys"
RowOfKey(k) == CHOOSE i \in 1..Len(ret.rows) : ret.rows[i].key = k

\* C33: cacheKeys returns one row per stored entry, in non-increasing order
\* of remaining time, every remaining time is at least 0 (the time left, or 0
\* for an expired entry), and the call leaves the store as it was, expired
\* entries included.
C33_ListingComplete ==
    Listed =>
        /\ Len(ret.rows) = Cardinality(DOMAIN ret.before)
        /\ \A k \in DOMAIN ret.before : \E i \in 1..Len(ret.rows) : ret.rows[i].key = k
        /\ \A i, j \in 1..Len(ret.rows) :
              i < j => ret.rows[i].ttl_ms >= ret.rows[j].ttl_ms
        /\ \A i \in 1..Len(ret.rows) :
              LET e == ret.before[ret.rows[i].key]
              IN  /\ ret.rows[i].ttl_ms >= 0
                  /\ ret.rows[i].ttl_ms =
                        (IF e.expires >= ret.at THEN e.expires - ret.at ELSE 0)
        /\ cache = ret.before

\* the listing of a store that holds an entry past its expiry, never read
\* since, and an entry with time left
C33_Witness ==
    /\ Listed
    /\ \E k1, k2 \in DOMAIN ret.before :
        /\ ret.before[k1].expires < ret.at
        /\ ret.rows[RowOfKey(k1)].ttl_ms = 0
        /\ ret.before[k2].expires > ret.at
        /\ ret.rows[RowOfKey(k2)].ttl_ms > 0
        /\ k1 \in DOMAIN cache

\* C37: an entry leaves the store only by a cacheGet on its own key after its
\* expiry. A cacheSet leaves every entry under another key as it was, a
\* cacheGet leaves every entry as it was except its own key's expired entry,
\* cacheKeys leaves the store as it was, and an entry that has not expired is
\* returned by a cacheGet on its key.
C37_OnlyExpiryRemoves ==
    /\ ret.op = "set" =>
        /\ DOMAIN cache = DOMAIN ret.before \cup {ret.key}
        /\ \A k \in DOMAIN ret.before : k # ret.key => cache[k] = ret.before[k]
    /\ ret.op = "get" =>
        /\ DOMAIN cache \subseteq DOMAIN ret.before
        /\ \A k \in DOMAIN ret.before :
            /\ k \in DOMAIN cache => cache[k] = ret.before[k]
            /\ k \notin DOMAIN cache =>
                  k = ret.key /\ ret.before[k].expires < ret.at
        /\ (ret.key \in DOMAIN ret.before /\ ret.before[ret.key].expires >= ret.at)
              => ret.val = Present(ret.before[ret.key].data)
    /\ ret.op = "keys" => cache = ret.before

\* an insertion under a new key has left an unexpired entry under another key
\* in place
C37_Witness ==
    /\ ret.op = "set"
    /\ ret.key \notin DOMAIN ret.before
    /\ \E k \in DOMAIN ret.before :
        /\ k # ret.key
        /\ ret.before[k].expires >= now
        /\ k \in DOMAIN cache
    /\ now > 0

(***************************************************************************)
(* Objects handed to the cache and handed back by it                       *)
(***************************************************************************)
\* A JavaScript object is passed by reference: the value cacheSet receives,
\* stores under data and cacheGet hands back is the address of the object.
Ref(o) == [ref |-> o]

\* cacheSet(key, obj): the entry holds the object the caller passed
ShareSetCall(k, o) ==
    /\ cache' = cacheSet(cache, k, Ref(o), CACHE_TTL_SECONDS, now)
    /\ lastSet' = [lastSet EXCEPT ![k] = [set |-> TRUE, v |-> heap[o],
                                          ttl |-> CACHE_TTL_SECONDS, at |-> now]]
    /\ ret' = [op |-> "set", key |-> k, before |-> cache]
    /\ UNCHANGED <<now, ticks, heap, env, created, born, jobsBoard, up, sent, req>>

\* a request changes an object it holds: one it built and passed to cacheSet,
\* or one cacheGet returned to it
MutateCall(o, v) ==
    /\ heap[o] # v
    /\ heap' = [heap EXCEPT ![o] = v]
    /\ ret' = [op |-> "mutate", obj |-> o]
    /\ UNCHANGED <<cache, now, ticks, lastSet, env, created, born, jobsBoard, up, sent, req>>

\* cacheGet(key): what the caller reads in the object handed back (seen),
\* next to what that object held when it was stored (stored)
ShareGetCall(k) ==
    LET hit == cacheGet(cache, k, now)
    IN  /\ cache' = cacheGetStore(cache, k, now)
        /\ ret' = [op |-> "get", key |-> k, at |-> now, val |-> hit,
                   seen |-> IF hit.hit THEN heap[hit.data.ref] ELSE "",
                   stored |-> IF hit.hit THEN lastSet[k].v ELSE "",
                   before |-> cache]
        /\ UNCHANGED <<now, ticks, lastSet, heap, env, created, born, jobsBoard, up, sent, req>>

NextShare ==
    \/ \E k \in Keys, o \in Objs : ShareSetCall(k, o)
    \/ \E o \in Objs, v \in Vals : MutateCall(o, v)
    \/ \E k \in Keys : ShareGetCall(k)
    \/ \E d \in TickSteps : Tick(d)

SpecShare == InitCache /\ [][NextShare]_vars

\* C34 (as claimed): the cache holds copies: what a cacheGet returns is what
\* the value held when it was passed to cacheSet, whatever was changed since
\* in that object or in an object an earlier cacheGet returned.
C34_CacheOwnsCopies ==
    (ret.op = "get" /\ ret.val.hit) => ret.seen = ret.stored

(***************************************************************************)
(* POST /timesheets: timesheet submit (create item on Monday)              *)
(***************************************************************************)
TsBody(email, workerName, jobNumber, date, totalHours, notes) ==
    [email |-> email, workerName |-> workerName, jobNumber |-> jobNumber,
     date |-> date, totalHours |-> totalHours, notes |-> notes]

\* request bodies: two submissions that differ in their notes, and one
\* without a date
TsBodies ==
    {TsBody("a@x.io", "Al", "2762-5", "2024-01-05", 8, ""),
     TsBody("a@x.io", "Al", "2762-5", "2024-01-05", 8, "late"),
     TsBody("a@x.io", "Al", "2762-5", "", 8, "")}

\* workerName || email
OrElse(a, b) == IF a # "" THEN a ELSE b

itemNameOf(b) ==
    OrElse(b.workerName, b.email) \o " - " \o b.date \o " - " \o b.jobNumber
        \o " - " \o ToString(b.totalHours) \o "h"

\* JSON.stringify(cols), with every column of the board configured
columnValsOf(b) ==
    "{date:" \o b.date \o ",name:" \o OrElse(b.workerName, b.email)
        \o ",job:" \o b.jobNumber \o ",hours:" \o ToString(b.totalHours)
        \o ",notes:" \o b.notes \o "}"

\* keyBase of monday() for the create_item mutation and its variables
MutationKey(b) ==
    "m:" \o "create_item" \o "::" \o itemNameOf(b) \o "::" \o columnValsOf(b)

\* the lookup as the claim has it: a mutation is never answered from the cache
\* (C35_EverySubmissionCreates holds with it in place of MutationLookup)
MutationLookupNever(c, key, t) == Absent

\* the lookup monday() makes before it sends the mutation
MutationLookup(c, key, t) == cacheGet(c, key, t)

\* the handler up to the await of monday(): validation, item name, columns
SubmitStart(r, b) ==
    /\ req[r].pc = "idle"
    /\ req' = [req EXCEPT ![r] =
          IF b.email = "" \/ b.jobNumber = "" \/ b.date = ""
          THEN [@ EXCEPT !.kind = "submit", !.pc = "done", !.status = 400,
                         !.body = [ok |-> FALSE, error |-> "Missing required fields"]]
          ELSE [@ EXCEPT !.kind = "submit", !.pc = "call", !.phase = "create_item",
                         !.email = b.email, !.onDate = b.date,
                         !.jobNumRaw = b.jobNumber, !.key = MutationKey(b),
                         !.contractorId = itemNameOf(b)]]
    /\ UNCHANGED <<cache, now, ticks, histVars, env, heap, created, born, jobsBoard, up, sent>>

\* monday(): the mutation's key is in the cache; the stored data is returned
\* and the handler answers with its id
SubmitHit(r) ==
    LET rq == req[r]
        hit == MutationLookup(cache, rq.key, now)
    IN  /\ rq.pc = "call" /\ rq.kind = "submit"
        /\ hit.hit
        /\ req' = [req EXCEPT ![r] =
              [rq EXCEPT !.pc = "done", !.status = 200, !.src = "cache",
                         !.fromCache = TRUE,
                         !.body = [ok |-> TRUE, id |-> hit.data.create_item.id]]]
        /\ UNCHANGED <<cache, now, ticks, histVars, env, heap, created, born, jobsBoard, up, sent>>

\* monday(): no entry, the mutation is sent upstream
SubmitMiss(r) ==
    LET rq == req[r]
    IN  /\ rq.pc = "call" /\ rq.kind = "submit"
        /\ ~MutationLookup(cache, rq.key, now).hit
        /\ cache' = cacheGetStore(cache, rq.key, now)
        /\ sent' = sent \cup {[by |-> r, q |-> "create_item", cursor |-> 0,
                                  prev |-> rq.src]}
        /\ req' = [req EXCEPT ![r] = [rq EXCEPT !.pc = "wait"]]
        /\ UNCHANGED <<now, ticks, histVars, env, heap, created, born, jobsBoard, up>>

\* the upstream creates the item and answers with its id; monday() stores the
\* answer under the mutation's key and the handler answers ok
SubmitOk(r) ==
    LET rq == req[r]
        id == Len(created) + 1
        data == [create_item |-> [id |-> id]]
    IN  /\ rq.pc = "wait" /\ rq.kind = "submit"
        /\ created' = Append(created, [id |-> id, name |-> rq.contractorId, by |-> r])
        /\ cache' = cacheSet(cache, rq.key, data, CACHE_TTL_SECONDS, now)
        /\ req' = [req EXCEPT ![r] =
              [rq EXCEPT !.pc = "done", !.status = 200, !.src = "upstream",
                         !.wrote = @ \cup {rq.key},
                         !.body = [ok |-> TRUE, id |-> id]]]
        /\ UNCHANGED <<now, ticks, histVars, env, heap, born, jobsBoard, up, sent>>

\* the upstream call fails: the catch of the handler answers 500
SubmitFail(r) ==
    LET rq == req[r]
    IN  /\ rq.pc = "wait" /\ rq.kind = "submit"
        /\ req' = [req EXCEPT ![r] =
              [rq EXCEPT !.pc = "done", !.status = 500,
                         !.body = [ok |-> FALSE, error |-> "upstream"],
                         !.failedAt = Cardinality(SentBy(r)),
                         !.failedPhase = rq.phase]]
        /\ UNCHANGED <<cache, now, ticks, histVars, env, heap, created, born, jobsBoard, up, sent>>

NextSubmit ==
    \/ \E r \in Reqs, b \in TsBodies : SubmitStart(r, b)
    \/ \E r \in Reqs : SubmitHit(r)
    \/ \E r \in Reqs : SubmitMiss(r)
    \/ \E r \in Reqs : SubmitOk(r)
    \/ \E r \in Reqs : SubmitFail(r)
    \/ \E d \in {1, LongStep} : Tick(d)

SpecSubmit == InitCache /\ [][NextSubmit]_vars

Accepted(r) ==
    req[r].kind = "submit" /\ req[r].pc = "done" /\ req[r].status = 200

\* C35 (as claimed): every accepted timesheet submission was sent upstream
\* and created an item of its own; none is answered from the cache of
\* monday(), two identical submissions within the TTL included.
C35_EverySubmissionCreates ==
    \A r \in Reqs :
        Accepted(r) =>
            /\ ~req[r].fromCache
            /\ \E e \in SentBy(r) : e.q = "create_item"
            /\ \E i \in 1..Len(created) :
                  created[i].by = r /\ created[i].id = req[r].body.id

(***************************************************************************)
(* Claims about staleness                                                  *)
(***************************************************************************)
\* two /jobs/my requests for the same result, their times recorded, against a
\* clock that moves between their steps
ArgsStale == {Arg("B@X.IO", "", TRUE, 1, MaxLimitArg)}

NextStale ==
    \/ \E r \in Reqs, a \in ArgsStale : JobsStartTimed(r, a)
    \/ \E r \in Reqs : MondayHit(r)
    \/ \E r \in Reqs : MondayMiss(r)
    \/ \E r \in Reqs : MondayOk(r)
    \/ \E r \in Reqs, kind \in FailKinds : MondayFail(r, kind)
    \/ Tick(LongStep)

SpecStale == Init /\ [][NextStale]_vars

TwoLifetimes == 2 * CACHE_TTL_SECONDS * MsPerSecond

\* the /jobs/my request has answered 200 with a response derived from at
\* least one upstream page
Answered(r) ==
    /\ req[r].kind = "jobs" /\ req[r].pc = "done" /\ req[r].status = 200
    /\ req[r].answered

\* time between the fetch of the oldest upstream page behind the response and
\* the response
Staleness(r) == req[r].stale

\* C36 (as claimed): every /jobs/my response is derived only from upstream
\* pages fetched at most 2 * CACHE_TTL_SECONDS before the response.
C36_StalenessTwoLifetimes ==
    \A r \in Reqs : Answered(r) => Staleness(r) <= TwoLifetimes

\* C36 (amended): the pages behind a /jobs/my response were fetched at most
\* 2 * CACHE_TTL_SECONDS plus the running time of the traversal that computed
\* the response before the response.
C36_StalenessBound ==
    \A r \in Reqs : Answered(r) => Staleness(r) <= TwoLifetimes + req[r].took

\* a response served from the result cache more than two lifetimes after the
\* fetch of its oldest page
C36_Witness ==
    \E r \in Reqs :
        /\ Answered(r) /\ req[r].fromCache
        /\ Staleness(r) > TwoLifetimes
        /\ req[r].took > 0

(***************************************************************************)
(* Claims about the two timesheet status rules                             *)
(***************************************************************************)
\* C38: for every group label, a label the strict rule calls approved is
\* approved under the legacy rule too (approved iff the label contains
\* "approved" or "payroll", in any case), so the two rules give different
\* statuses only for labels the strict rule calls pending.
C38_StrictRefinesLegacy ==
    ret.op = "status" =>
        /\ ret.out = "approved" => ret.legacy = "approved"
        /\ ret.out # ret.legacy => (ret.out = "pending" /\ ret.legacy = "approved")
        /\ ret.legacy = "approved" <=>
              (ContainsCI(ret.arg, "approved") \/ ContainsCI(ret.arg, "payroll"))

\* a label on which the rules differ
C38_Witness ==
    /\ ret.op = "status"
    /\ ret.arg = "To Be Approved"
    /\ ret.out = "pending"
    /\ ret.legacy = "approved"

(***************************************************************************)
(* GET /timesheets requests against one process-wide cache                 *)
(***************************************************************************)
TsArg(name, jobNumber, limit, strict, debug) ==
    [name |-> name, jobNumber |-> jobNumber, limit |-> limit, strict |-> strict,
     debug |-> debug]

\* query strings: a name filter, loose or strict, with or without a job
\* number, and the unfiltered listing with debug=1
ArgsTs ==
    {TsArg(n, j, l, s, FALSE) :
        n \in {" Al B", "al"}, j \in {"", "2762-5"}, l \in 1..MaxLimitArg,
        s \in BOOLEAN}
    \cup {TsArg("", "", l, FALSE, TRUE) : l \in 1..MaxLimitArg}

\* the handler up to its first await: parameters, result-cache lookup
TsStart(r, a) ==
    /\ req[r].pc = "idle"
    /\ LET nameRaw == trim(a.name)
           jobNumberFilter == trim(a.jobNumber)
           limit == limitOfTs(a.limit)
           key == tsCacheKey(nameRaw, jobNumberFilter, limit, a.strict, TRUE)
           hit == cacheGet(cache, key, now)
           rq == [req[r] EXCEPT !.kind = "ts", !.key = key, !.limit = limit,
                                !.wantName = norm(nameRaw),
                                !.jobNumberFilter = jobNumberFilter,
                                !.strict = a.strict, !.wantDebug = a.debug]
       IN  /\ cache' = cacheGetStore(cache, key, now)
           /\ req' = [req EXCEPT ![r] =
                 IF hit.hit
                 THEN [rq EXCEPT !.pc = "done", !.status = 200, !.fromCache = TRUE,
                                 !.body = tsBody(hit.data, a.debug)]
                 ELSE [rq EXCEPT !.pc = "call", !.phase = "timesheets"]]
    /\ UNCHANGED <<now, ticks, histVars, env, heap, created, born, jobsBoard, up, sent>>

NextTs ==
    \/ \E r \in Reqs, a \in ArgsTs : TsStart(r, a)
    \/ \E r \in Reqs : MondayHit(r)
    \/ \E r \in Reqs : MondayMiss(r)
    \/ \E r \in Reqs : MondayOk(r)
    \/ \E r \in Reqs, kind \in FailKinds : MondayFail(r, kind)

SpecTs == Init /\ [][NextTs]_vars

(***************************************************************************)
(* Claims about GET /timesheets                                            *)
(***************************************************************************)
\* the records of the board in traversal order, page by page
TsRecordsUpTo(p) ==
    IF p = 0 THEN <<>>
    ELSE LET F[i \in 0..p] ==
                IF i = 0 THEN <<>> ELSE F[i - 1] \o TimesheetsBoard[i]
         IN  F[p]
TsRecords == TsRecordsUpTo(Len(TimesheetsBoard))

\* the record passes the request's name and job-number filters
NamePasses(r, rec) ==
    \/ req[r].wantName = ""
    \/ norm(rec.worker) = req[r].wantName
    \/ /\ ~req[r].strict
       /\ \/ includes(norm(rec.worker), req[r].wantName)
          \/ includes(req[r].wantName, norm(rec.worker))
JobPasses(r, rec) ==
    req[r].jobNumberFilter = "" \/ trim(rec.jobNo) = req[r].jobNumberFilter
Passing(r, recs) == SelectSeq(recs, LAMBDA rec : NamePasses(r, rec) /\ JobPasses(r, rec))

\* the first 2*limit passing records in traversal order
FirstPassing(r) ==
    LET all == Passing(r, TsRecords)
    IN  SubSeq(all, 1, Min(2 * req[r].limit, Len(all)))

\* the number of pages read until 2*limit passing records are collected, or
\* all pages
TsPagesNeeded(r) ==
    LET enough == {p \in 1..Len(TimesheetsBoard) :
                     Len(Passing(r, TsRecordsUpTo(p))) >= 2 * req[r].limit}
    IN  IF enough = {} THEN Len(TimesheetsBoard)
        ELSE CHOOSE p \in enough : \A q \in enough : p <= q

TsAnswered(r) == req[r].kind = "ts" /\ req[r].pc = "done" /\ req[r].status = 200

\* C39: GET /timesheets answers at most limit items in non-increasing order
\* of dateISO, each of them one of the first 2*limit records in traversal
\* order that pass the name and job-number filters, and a traversal requests
\* no page after the one on which 2*limit such records are collected.
C39_TimesheetsWindow ==
    \A r \in Reqs :
        TsAnswered(r) =>
            LET items == req[r].body.items
                first == FirstPassing(r)
            IN  /\ Len(items) <= req[r].limit
                /\ Len(items) = Min(req[r].limit, Len(first))
                /\ \A i, j \in 1..Len(items) :
                      i < j => StrLeq(items[j].dateISO, items[i].dateISO)
                /\ \A i \in 1..Len(items) :
                      \E k \in 1..Len(first) : first[k].id = items[i].id
                /\ \A i, j \in 1..Len(items) : i # j => items[i].id # items[j].id
                /\ ~req[r].fromCache => req[r].pages = TsPagesNeeded(r)
                /\ req[r].fromCache => req[r].pages = 0

\* a traversal stopped before the last page with 2*limit records collected and
\* answered limit of them, while a newer passing record lies on a later page
C39_Witness ==
    \E r \in Reqs :
        /\ TsAnswered(r) /\ ~req[r].fromCache
        /\ req[r].limit = 1
        /\ req[r].pages < Len(TimesheetsBoard)
        /\ Len(req[r].results) = 2
        /\ Len(req[r].body.items) = 1
        /\ \E k \in 1..Len(TsRecords) :
              /\ NamePasses(r, TsRecords[k]) /\ JobPasses(r, TsRecords[k])
              /\ ~StrLeq(TsRecords[k].date, req[r].body.items[1].dateISO)

(***************************************************************************)
(* Claims about the empty materials result                                 *)
(***************************************************************************)
\* the selected mode ran to its end and found no line
NoLineFound(r) ==
    /\ Ended(r)
    /\ \/ ModeA(r) /\ req[r].subToken # "" /\ env.subBoard /\ ExpectedLinesA(r) = <<>>
       \/ ModeB(r) /\ req[r].mainToken # "" /\ env.parentBoard /\ ExpectedLinesB(r) = <<>>

\* C40: a result returned by getMaterialsForJob has at least one group and no
\* empty group; when the selected mode finds no line (Mode A: no record with
\* the prefix; Mode B: no parent with the prefix, a parent without children,
\* or every child excluded) the call returns absent and throws nothing.
C40_NoEmptyResult ==
    \A r \in Reqs :
        MatCalled(r) =>
            /\ HasResult(r) =>
                /\ DOMAIN req[r].result.byStatus # {}
                /\ \A key \in DOMAIN req[r].result.byStatus :
                      req[r].result.byStatus[key] # <<>>
            /\ NoLineFound(r) =>
                /\ req[r].returned
                /\ req[r].result = NullResult
                /\ ~req[r].threw

\* Mode B found the parent and every child of it is excluded
C40_Witness ==
    \E r \in Reqs :
        /\ ModeB(r) /\ NoLineFound(r)
        /\ ParentCandidates(r) # {}
        /\ FirstParent(r).it.hasSubitems
        /\ FirstParent(r).it.subitems # <<>>
        /\ req[r].returned /\ req[r].result = NullResult

====
